---- MODULE Spec2Model ----
(***************************************************************************)
(* Model of api/management/commands/create_data.py: the insurance-policy   *)
(* case generator (Command.start and the stage handlers it calls), the     *)
(* rows it stores (Case, Activity, Rework, Bill) and the analytics passes  *)
(* that Command.handle runs after the generation loop.                     *)
(*                                                                         *)
(* The handlers are recursive Python methods.  pc is the handler (or the   *)
(* place inside a handler) that runs next; stack holds, innermost first,   *)
(* the places where callers resume.  Only two calls of the source are not  *)
(* in tail position, so only they push a frame: the calls of               *)
(* ingresar_tramite / visado in start (start resumes at line 147) and the  *)
(* call of enviar_revision_suscripcion in the return branch of             *)
(* revision_suscripcion (which resumes at line 302).  A handler that       *)
(* returns from a tail call returns to the innermost such frame.           *)
(*                                                                         *)
(* Time is an integer number of clock units.  Stage names are the source's *)
(* strings without their accents.                                          *)
(***************************************************************************)
EXTENDS Integers, Sequences, FiniteSets, TLC

VARIABLES
    pc,          \* the handler, or place in a handler, that runs next
    stack,       \* resume places of the callers that are not tail callers
    n,           \* handle: the length of the generation loop's range
    i,           \* handle: iterations of the generation loop begun so far
    cases_ids,   \* Command.cases_ids
    case,        \* the Command.Case object of the run in progress
    Cases,       \* Case table: id -> row
    Activities,  \* Activity table, in insertion (AutoField id) order
    Reworks,     \* Rework table, in insertion order
    Bills,       \* Bill table, in insertion order
    Variants,    \* Variant table, in insertion order
    draws,       \* history: the branch draws made so far, oldest first
    request,     \* the GET request the API handled last
    response     \* what the view's get gave for it

vars == <<pc, stack, n, i, cases_ids, case, Cases, Activities, Reworks, Bills,
          Variants, draws, request, response>>

(***************************** bounds **************************************)
\* handle generates range(1000) cases; the model generates one case (Spec)
\* or NumCases cases (SpecRun).
NumCases == 2
\* new_case_id draws from randint(1, 10000); the model from 1..MaxCaseId.
MaxCaseId == 2
\* Activity rows a run of one case may store.
MaxActs == 23
\* Activity rows a run of several cases may store.
RunActs == 15
\* Rework rows a run may store (the source has no retry cap).
MaxRework == 1
\* The clock units a transition adds when its delta does not round to zero.
Delta == 2
\* Only the first ZeroActs Activity rows of a run may be stored with a delta
\* of zero.
ZeroActs == 2
\* What timezone.now() reads during the run, in clock units.
Now == 40
\* How far before Now the initial timestamp of a case that enters billing may
\* lie (SpecBilling), in clock units.
BillSpan == 110

(**************************** vocabulary ***********************************)
Renewal == "Renewal"
Issuance == "Issuance"
PolicyOnboarding == "Policy onboarding"
CaseTypes == {Renewal, Issuance, PolicyOnboarding}

IngresarTramite == "Ingresar tramite"
RegistrarPO == "Registrar PO"
DevolucionBrocker == "Devolucion al brocker del caso (Revision Brocker)"
EnviarEmision == "Enviar a emision"
RegistroCompromiso == "Registro de compromiso"
EnviarRevisionSuscripcion == "Enviar a Revision suscripcion"
ValidarInfoEnviada == "Validar info enviada"
DevolverComercial == "Devolver caso a Comercial"
RevisionSuscripcion == "Revision en suscripcion"
DevolucionSuscripcion == "Realizar devolucion desde suscripcion"
EnviarSuscripcionLocal == "Enviar a suscripcion local"
DeclinarSuscripcion == "Declinar solicitud en suscripcion"
AprobarSuscripcionLocal == "Aprobar solicitud en suscripcion local"
EnviarRespuestaComercial == "Enviar respuesta al area comercial"
RechazarBrocker == "Rechazar (perdida) por parte del Brocker"
DeclinarBrocker == "Declinar por parte del Brocker"
AceptarBrocker == "Aceptar (ganado) por parte del Brocker"
Visado == "Visado"
DevolucionComercialVisado == "Devolucion a comercial desde visado"
RevisionEmision == "Revision en emision"
DevolucionComercialEmision == "Devolucion a comercial desde emision"
DevolucionVisadoEmision == "Devolucion a visado desde emision"
ControlCalidad == "Control de calidad documental"
DevolucionControlCalidad == "Devolucion a emision de control de calidad"
IniciarFacturacion == "Iniciar facturacion"
GenerarFactura == "Generar Factura"
ContabilizarFactura == "Contabilizar Factura"
GenerarPoliza == "Generar poliza"
EnviarFacturaElectronica == "Enviar factura electronica"
RespuestaSRI == "Respuesta SRI"
EnviarPolizaElectronica == "Enviar poliza electronica"
FirmaPolizaElectronica == "Firma poliza electronica por parte del cliente"
FinalizarEnvio == "Finalizar envio poliza y factura al cliente"
FinalizarProceso == "Finalizar proceso de emision"
RecepcionPago == "Recepcion pago"
DevolucionEmisionCorregir == "Devolucion a emision (corregir informacion)"
DevolucionComercialCorregir == "Devolucion a comercial (corregir informacion)"

\* The list random.choice draws a Rework's cause from.
CAUSES == <<"Falta de informacion", "Informacion incorrecta",
            "Informacion incompleta", "Informacion duplicada",
            "Documentos incorrectos", "Documentos incompletos",
            "Documentos duplicados">>

\* The causes the model draws: no handler and no analytics pass reads a cause.
Causes == {CAUSES[1]}

\* The deltas timedelta(hours=random.expovariate(1/12)) takes in the model,
\* for the transition that stores Activity row number k + 1 of the run:
\* expovariate returns a float >= 0.0 and timedelta rounds to microseconds,
\* so zero is among the values the source can add.
Deltas(k) == IF k < ZeroActs THEN {0, Delta} ELSE {Delta}

\* days=30 of the Bill loop, in clock units.
BillPeriod == 30

\* value = randint(10, 100) * 100, for the case begun after k others: the
\* first case of a run draws either end of the range, a later one the low end.
Values(k) == IF k = 0 THEN {10 * 100, 100 * 100} ELSE {10 * 100}

\* initial_timestamp: the base date plus the random offset.
InitialTimestamps == {1}

(************************** helper operators *******************************)
Max(S) == CHOOSE x \in S : \A y \in S : y <= x
Min(S) == CHOOSE x \in S : \A y \in S : x <= y

\* The ids (1-based positions) of the Activity rows of case cid, a set.
CaseActivityIds(acts, cid) == {k \in 1..Len(acts) : acts[k].case = cid}

\* The Activity rows of case cid, in insertion order.
CaseActivities(acts, cid) == SelectSeq(acts, LAMBDA a : a.case = cid)

\* The names of a sequence of Activity rows.
Names(acts) == [k \in 1..Len(acts) |-> acts[k].name]

(************************ new_case_id, update_case *************************)
\* new_case_id without the retry loop: any id of the range.
new_case_id_unchecked(ids) == 1..MaxCaseId

\* new_case_id: the ids the retry loop can end on, those not yet in cases_ids.
new_case_id(ids) ==
    {case_id \in 1..MaxCaseId : \A k \in 1..Len(ids) : ids[k] # case_id}

\* update_case with the clock moved back by the delta instead of forward.
AdvanceCaseBack(c, activity, d) ==
    [c EXCEPT !.last_timestamp = c.last_timestamp - d, !.state = activity]

\* update_case, lines 86-87: the working case after the clock advance.
AdvanceCase(c, activity, d) ==
    [c EXCEPT !.last_timestamp = c.last_timestamp + d, !.state = activity]

\* update_case saving a Case row built anew instead of the row it has read:
\* the approval is lost.
SaveStateUnapproved(rows, cid, activity) ==
    [rows EXCEPT ![cid].state = activity, ![cid].approved = FALSE]

\* update_case saving the state without the filter on the case id: every
\* Case row gets the state of the running case.
SaveStateAllRows(rows, cid, activity) ==
    [id \in DOMAIN rows |-> [rows[id] EXCEPT !.state = activity]]

\* update_case, lines 88-90: the Case row with its state saved.
SaveState(rows, cid, activity) == [rows EXCEPT ![cid].state = activity]

\* write_in_file, line 69: the Activity row created for the advanced case c.
NewActivity(c, activity) ==
    [case |-> c.case_id, name |-> activity, timestamp |-> c.last_timestamp,
     case_index |-> c.case_id, tpt |-> 0]

\* write_in_file that writes the csv line and creates no Activity.
write_in_file_csv_only(acts, c, activity) == acts

\* write_in_file: the Activity table after the create.
write_in_file(acts, c, activity) == Append(acts, NewActivity(c, activity))

(***************************** Rework rows *********************************)
\* The id of the oldest Activity of the case (0 for None): first() where the
\* source calls last().
OldestActivity(acts, cid) ==
    IF CaseActivityIds(acts, cid) = {} THEN 0 ELSE Min(CaseActivityIds(acts, cid))

\* Activity.objects.filter(case=...).last(): the id of the newest Activity of
\* the case (0 for None).
LastActivity(acts, cid) ==
    IF CaseActivityIds(acts, cid) = {} THEN 0 ELSE Max(CaseActivityIds(acts, cid))

\* last() where the source calls first(): the id of the newest Activity of
\* the case with that name (0 for None).
LatestActivityNamed(acts, cid, target) ==
    LET S == {k \in CaseActivityIds(acts, cid) : acts[k].name = target}
    IN  IF S = {} THEN 0 ELSE Max(S)

\* Activity.objects.filter(case=..., name=target).first(): the id of the
\* oldest Activity of the case with that name (0 for None).
FirstActivityNamed(acts, cid, target) ==
    LET S == {k \in CaseActivityIds(acts, cid) : acts[k].name = target}
    IN  IF S = {} THEN 0 ELSE Min(S)

\* cost counted from the first Activity of the case when the target stage has
\* no Activity.
ReworkCostSinceStart(acts, cid, target) ==
    LET activity == LastActivity(acts, cid)
        return_activity == FirstActivityNamed(acts, cid, target)
    IN  IF return_activity # 0
        THEN acts[activity].timestamp - acts[return_activity].timestamp
        ELSE acts[activity].timestamp
                 - acts[Min(CaseActivityIds(acts, cid))].timestamp

\* cost, as every return branch computes it.
ReworkCost(acts, cid, target) ==
    LET activity == LastActivity(acts, cid)
        return_activity == FirstActivityNamed(acts, cid, target)
    IN  IF return_activity # 0
        THEN acts[activity].timestamp - acts[return_activity].timestamp
        ELSE 0

\* The row Rework.objects.create stores.
NewRework(acts, cid, target, cause) ==
    [activity |-> LastActivity(acts, cid), cost |-> ReworkCost(acts, cid, target),
     target |-> target, cause |-> cause]

(****************************** Bill rows **********************************)
\* The Bill loop with <= where line 475 has <.
RECURSIVE BillLoopInclusive(_, _, _, _, _)
BillLoopInclusive(bills, cid, value, last_timestamp, now) ==
    IF last_timestamp <= now
    THEN BillLoopInclusive(Append(bills, [case |-> cid, value |-> value,
                                          timestamp |-> last_timestamp]),
                           cid, value, last_timestamp + BillPeriod, now)
    ELSE bills

\* The Bill loop with the timestamp moved on before the Bill is created.
RECURSIVE BillLoopIncrementFirst(_, _, _, _, _)
BillLoopIncrementFirst(bills, cid, value, last_timestamp, now) ==
    IF last_timestamp < now
    THEN BillLoopIncrementFirst(
             Append(bills, [case |-> cid, value |-> value,
                            timestamp |-> last_timestamp + BillPeriod]),
             cid, value, last_timestamp + BillPeriod, now)
    ELSE bills

\* iniciar_facturacion, lines 474-477: the Bill table after the while loop.
RECURSIVE BillLoop(_, _, _, _, _)
BillLoop(bills, cid, value, last_timestamp, now) ==
    IF last_timestamp < now
    THEN BillLoop(Append(bills, [case |-> cid, value |-> value,
                                 timestamp |-> last_timestamp]),
                  cid, value, last_timestamp + BillPeriod, now)
    ELSE bills

(************************** the branch draws *******************************)
\* Each operator maps the value of one random.randint draw to the place the
\* handler goes to next (a handler, or handler_line inside one).

\* start with the draw made, and visado called, whatever the case type.
start_branch_any_type(case_type, r) ==
    IF case_type = PolicyOnboarding THEN "ingresar_tramite"
    ELSE IF r <= 50 THEN "visado"
    ELSE "registro_de_compromiso"

\* start, lines 140-147 (the draw is made for a Renewal only).
start_branch(case_type, r) ==
    IF case_type = PolicyOnboarding THEN "ingresar_tramite"
    ELSE IF case_type = Renewal /\ r <= 50 THEN "visado"
    ELSE "registro_de_compromiso"

\* registrar_PO, lines 179-193.
registrar_PO_branch(r) ==
    IF r <= 10 THEN "registrar_PO_181" ELSE "registrar_PO_193"

\* enviar_revision_suscripcion, lines 220-224.
enviar_revision_suscripcion_branch(r) ==
    IF r <= 50 THEN "validar_info_enviada" ELSE "revision_suscripcion"

\* validar_info_enviada, lines 247-261.
validar_info_enviada_branch(r) ==
    IF r <= 10 THEN "validar_info_enviada_249" ELSE "revision_suscripcion"

\* revision_suscripcion, lines 286-300: the draw is randint(1, 50).
revision_suscripcion_branch(r) ==
    IF r <= 10 THEN "revision_suscripcion_288"
    ELSE IF r <= 50 THEN "revision_suscripcion_300"
    ELSE "revision_suscripcion_302"

\* revision_suscripcion, lines 302-306.
revision_suscripcion_decision(r) ==
    IF r <= 10 THEN "revision_suscripcion_304" ELSE "aprobar_suscripcion_local"

\* aprobar_suscripcion_local, lines 327-333.
aprobar_suscripcion_local_branch(r) ==
    IF r <= 33 THEN "aprobar_suscripcion_local_329"
    ELSE IF r <= 66 THEN "aprobar_suscripcion_local_331"
    ELSE "aceptar_brocker"

\* visado, lines 366-380.
visado_branch(r) ==
    IF r <= 10 THEN "visado_368" ELSE "revision_emision"

\* revision_emision, lines 415-445.
revision_emision_branch(r) ==
    IF r <= 10 THEN "revision_emision_417"
    ELSE IF r <= 20 THEN "revision_emision_429"
    ELSE IF r <= 50 THEN "revision_emision_441"
    ELSE "iniciar_facturacion"

\* finalizar_poliza_factura_cliente without its success branch: every draw
\* returns the case to emission.
finalizar_branch_no_success(r) ==
    IF r <= 90 THEN "finalizar_poliza_factura_cliente_522"
    ELSE "finalizar_poliza_factura_cliente_534"

\* finalizar_poliza_factura_cliente, lines 511-534.
finalizar_branch(r) ==
    IF r <= 80 THEN "finalizar_poliza_factura_cliente_514"
    ELSE IF r <= 90 THEN "finalizar_poliza_factura_cliente_522"
    ELSE "finalizar_poliza_factura_cliente_534"

\* random.randint(1, 100) and random.randint(1, 50).
Randint100 == 1..100
Randint50 == 1..50

\* The places where a handler records a return and creates a Rework.
ReturnPlaces ==
    {"registrar_PO_181", "validar_info_enviada_249", "revision_suscripcion_288",
     "visado_368", "revision_emision_417", "revision_emision_429",
     "finalizar_poliza_factura_cliente_522",
     "finalizar_poliza_factura_cliente_534"}

\* The places a draw may lead to: all its outcomes, the return places among
\* them only while the run may still store a Rework.
Allowed(outcomes, reworks) ==
    {l \in outcomes : l \in ReturnPlaces => Len(reworks) < MaxRework}

\* The Activity rows a run of loop_range cases may store.
ActsBound(loop_range) == IF loop_range = 1 THEN MaxActs ELSE RunActs

\* A handler returns: to the innermost caller that has code left to run, or
\* to handle when start itself returns.
ReturnTo(stk) == IF stk = <<>> THEN "handle" ELSE Head(stk)
PopFrame(stk) == IF stk = <<>> THEN <<>> ELSE Tail(stk)

(******************************* Init **************************************)
\* No run in progress: the value of case before the first start().
NoCase == [case_id |-> 0, type |-> "", last_timestamp |-> 0, state |-> "",
           value |-> 0]

\* A query parameter that the request does not carry, for a parameter of
\* numbers (a parameter of strings is "" and a list parameter {} when absent:
\* the views test them with "if param:").
Absent == 0

\* A date parameter that strptime(..., "%Y-%m-%d") raises ValueError on.
Malformed == -1

\* No exception: a handler that runs to its return.
NoFault == ""

\* The query parameters the views read, none of them given.
NoParams ==
    [var |-> {}, case |-> {}, name |-> {}, case_index |-> Absent, type |-> "",
     state |-> "", start_date |-> Absent, end_date |-> Absent,
     page_size |-> Absent, activities |-> {}]

\* No request handled yet.
NoRequest == [view |-> "", params |-> NoParams, fault |-> NoFault]

\* No response given yet.  status is the status of the Response the handler
\* returns (0 when it returns none), results the rows of its body, error the
\* 'error' entry of its body, raised the message of the exception that leaves
\* the handler.
NoResponse == [status |-> 0, results |-> <<>>, error |-> "", raised |-> NoFault]

\* A fresh process on an empty database, about to generate loop_range cases.
InitWith(loop_range) ==
    /\ n = loop_range
    /\ pc = "handle"
    /\ stack = <<>>
    /\ i = 0
    /\ cases_ids = <<>>
    /\ case = NoCase
    /\ Cases = <<>>
    /\ Activities = <<>>
    /\ Reworks = <<>>
    /\ Bills = <<>>
    /\ Variants = <<>>
    /\ draws = <<>>
    /\ request = NoRequest
    /\ response = NoResponse

\* handle with a loop of one case.
Init == InitWith(1)

\* handle with a loop of NumCases cases.
InitRun == InitWith(NumCases)

(************************ one stage transition *****************************)
\* One call of update_case(case, activity), followed, when target is a stage
\* name, by the Rework.objects.create of the return branch that made the call
\* and, when approve holds, by lines 516-518 (approved = True).
NoTarget == ""

update_case(activity, target, approve) ==
    \E d \in Deltas(Len(Activities)) :
        /\ Len(Activities) < ActsBound(n)
        /\ case' = AdvanceCase(case, activity, d)
        /\ Activities' = write_in_file(Activities, case', activity)
        /\ Cases' = IF approve
                    THEN [SaveState(Cases, case.case_id, activity)
                              EXCEPT ![case.case_id].approved = TRUE]
                    ELSE SaveState(Cases, case.case_id, activity)
        /\ Reworks' \in
               IF target = NoTarget
               THEN {Reworks}
               ELSE {Append(Reworks,
                            NewRework(Activities', case.case_id, target, cause)) :
                         cause \in Causes}

\* The handler goes on at place l, chosen by a draw made at place site.
Goto(site, outcomes) ==
    \E l \in Allowed(outcomes, Reworks) :
        /\ pc' = l
        /\ draws' = Append(draws, [case |-> case.case_id, at |-> site, to |-> l])

\* The handler goes on at place l without a draw.
Jump(l) == pc' = l /\ draws' = draws

(**************************** the handlers *********************************)
\* start, lines 121-147: one iteration of handle's generation loop begins.
start ==
    /\ pc = "handle"
    /\ i < n
    /\ \E case_type \in CaseTypes, case_id \in new_case_id(cases_ids),
          initial_timestamp \in InitialTimestamps, value \in Values(i) :
          /\ case' = [case_id |-> case_id, type |-> case_type,
                      last_timestamp |-> initial_timestamp, state |-> "Start",
                      value |-> value]
          /\ cases_ids' = Append(cases_ids, case_id)
          /\ Cases' = [id \in DOMAIN Cases \cup {case_id} |->
                          IF id = case_id
                          THEN [type |-> case_type, state |-> "Start",
                                approved |-> FALSE, avg_time |-> 0,
                                value |-> value]
                          ELSE Cases[id]]
          /\ \E l \in {start_branch(case_type, r) : r \in Randint100} :
                /\ pc' = l
                /\ draws' = IF case_type = Renewal
                            THEN Append(draws, [case |-> case_id, at |-> "start",
                                                to |-> l])
                            ELSE draws
                \* line 147 runs after ingresar_tramite or visado returns
                /\ stack' = IF l = "registro_de_compromiso"
                            THEN <<>>
                            ELSE <<"registro_de_compromiso">>
    /\ i' = i + 1
    /\ UNCHANGED <<n, Activities, Reworks, Bills, Variants, request, response>>

\* ingresar_tramite, lines 158-160.
ingresar_tramite ==
    /\ pc = "ingresar_tramite"
    /\ update_case(IngresarTramite, NoTarget, FALSE)
    /\ Jump("registrar_PO")
    /\ UNCHANGED <<stack, n, i, cases_ids, Bills, Variants, request, response>>

\* registrar_PO, lines 177-194.
registrar_PO ==
    \/ /\ pc = "registrar_PO"
       /\ update_case(RegistrarPO, NoTarget, FALSE)
       /\ Goto("registrar_PO", {registrar_PO_branch(r) : r \in Randint100})
       /\ UNCHANGED <<stack, n, i, cases_ids, Bills, Variants, request, response>>
    \/ /\ pc = "registrar_PO_181"
       /\ update_case(DevolucionBrocker, RegistrarPO, FALSE)
       /\ Jump("registrar_PO")
       /\ UNCHANGED <<stack, n, i, cases_ids, Bills, Variants, request, response>>
    \/ /\ pc = "registrar_PO_193"
       /\ update_case(EnviarEmision, NoTarget, FALSE)
       /\ Jump("revision_emision")
       /\ UNCHANGED <<stack, n, i, cases_ids, Bills, Variants, request, response>>

\* registro_de_compromiso, lines 205-206.
registro_de_compromiso ==
    /\ pc = "registro_de_compromiso"
    /\ update_case(RegistroCompromiso, NoTarget, FALSE)
    /\ Jump("enviar_revision_suscripcion")
    /\ UNCHANGED <<stack, n, i, cases_ids, Bills, Variants, request, response>>

\* enviar_revision_suscripcion, lines 219-224.
enviar_revision_suscripcion ==
    /\ pc = "enviar_revision_suscripcion"
    /\ update_case(EnviarRevisionSuscripcion, NoTarget, FALSE)
    /\ Goto("enviar_revision_suscripcion",
            {enviar_revision_suscripcion_branch(r) : r \in Randint100})
    /\ UNCHANGED <<stack, n, i, cases_ids, Bills, Variants, request, response>>

\* validar_info_enviada whose return branch goes on to revision_suscripcion
\* instead of calling enviar_revision_suscripcion again.
validar_info_enviada_no_reentry ==
    \/ /\ pc = "validar_info_enviada"
       /\ update_case(ValidarInfoEnviada, NoTarget, FALSE)
       /\ Goto("validar_info_enviada",
               {validar_info_enviada_branch(r) : r \in Randint100})
       /\ UNCHANGED <<stack, n, i, cases_ids, Bills, Variants, request, response>>
    \/ /\ pc = "validar_info_enviada_249"
       /\ update_case(DevolverComercial, EnviarRevisionSuscripcion, FALSE)
       /\ Jump("revision_suscripcion")
       /\ UNCHANGED <<stack, n, i, cases_ids, Bills, Variants, request, response>>

\* validar_info_enviada, lines 246-261.
validar_info_enviada ==
    \/ /\ pc = "validar_info_enviada"
       /\ update_case(ValidarInfoEnviada, NoTarget, FALSE)
       /\ Goto("validar_info_enviada",
               {validar_info_enviada_branch(r) : r \in Randint100})
       /\ UNCHANGED <<stack, n, i, cases_ids, Bills, Variants, request, response>>
    \/ /\ pc = "validar_info_enviada_249"
       /\ update_case(DevolverComercial, EnviarRevisionSuscripcion, FALSE)
       /\ Jump("enviar_revision_suscripcion")
       /\ UNCHANGED <<stack, n, i, cases_ids, Bills, Variants, request, response>>

\* revision_suscripcion, lines 285-306.  The call of line 298 is not a tail
\* call: when enviar_revision_suscripcion returns, the handler goes on at
\* line 302.
revision_suscripcion ==
    \/ /\ pc = "revision_suscripcion"
       /\ update_case(RevisionSuscripcion, NoTarget, FALSE)
       /\ Goto("revision_suscripcion",
               {revision_suscripcion_branch(r) : r \in Randint50})
       /\ UNCHANGED <<stack, n, i, cases_ids, Bills, Variants, request, response>>
    \/ /\ pc = "revision_suscripcion_288"
       /\ update_case(DevolucionSuscripcion, EnviarRevisionSuscripcion, FALSE)
       /\ Jump("enviar_revision_suscripcion")
       /\ stack' = <<"revision_suscripcion_302">> \o stack
       /\ UNCHANGED <<n, i, cases_ids, Bills, Variants, request, response>>
    \/ /\ pc = "revision_suscripcion_300"
       /\ update_case(EnviarSuscripcionLocal, NoTarget, FALSE)
       /\ Jump("revision_suscripcion_302")
       /\ UNCHANGED <<stack, n, i, cases_ids, Bills, Variants, request, response>>
    \/ /\ pc = "revision_suscripcion_302"
       /\ Goto("revision_suscripcion_302",
               {revision_suscripcion_decision(r) : r \in Randint100})
       /\ UNCHANGED <<stack, n, i, cases_ids, case, Cases, Activities, Reworks,
                      Bills, Variants, request, response>>
    \/ /\ pc = "revision_suscripcion_304"
       /\ update_case(DeclinarSuscripcion, NoTarget, FALSE)
       /\ Jump(ReturnTo(stack))
       /\ stack' = PopFrame(stack)
       /\ UNCHANGED <<n, i, cases_ids, Bills, Variants, request, response>>

\* aprobar_suscripcion_local, lines 324-333.
aprobar_suscripcion_local ==
    \/ /\ pc = "aprobar_suscripcion_local"
       /\ update_case(AprobarSuscripcionLocal, NoTarget, FALSE)
       /\ Jump("aprobar_suscripcion_local_325")
       /\ UNCHANGED <<stack, n, i, cases_ids, Bills, Variants, request, response>>
    \/ /\ pc = "aprobar_suscripcion_local_325"
       /\ update_case(EnviarRespuestaComercial, NoTarget, FALSE)
       /\ Goto("aprobar_suscripcion_local",
               {aprobar_suscripcion_local_branch(r) : r \in Randint100})
       /\ UNCHANGED <<stack, n, i, cases_ids, Bills, Variants, request, response>>
    \/ /\ pc = "aprobar_suscripcion_local_329"
       /\ update_case(RechazarBrocker, NoTarget, FALSE)
       /\ Jump(ReturnTo(stack))
       /\ stack' = PopFrame(stack)
       /\ UNCHANGED <<n, i, cases_ids, Bills, Variants, request, response>>
    \/ /\ pc = "aprobar_suscripcion_local_331"
       /\ update_case(DeclinarBrocker, NoTarget, FALSE)
       /\ Jump(ReturnTo(stack))
       /\ stack' = PopFrame(stack)
       /\ UNCHANGED <<n, i, cases_ids, Bills, Variants, request, response>>

\* aceptar_brocker that returns after its transition, without calling visado.
aceptar_brocker_returns ==
    /\ pc = "aceptar_brocker"
    /\ update_case(AceptarBrocker, NoTarget, FALSE)
    /\ Jump(ReturnTo(stack))
    /\ stack' = PopFrame(stack)
    /\ UNCHANGED <<n, i, cases_ids, Bills, Variants, request, response>>

\* aceptar_brocker, lines 345-346.
aceptar_brocker ==
    /\ pc = "aceptar_brocker"
    /\ update_case(AceptarBrocker, NoTarget, FALSE)
    /\ Jump("visado")
    /\ UNCHANGED <<stack, n, i, cases_ids, Bills, Variants, request, response>>

\* visado, lines 364-380.
visado ==
    \/ /\ pc = "visado"
       /\ update_case(Visado, NoTarget, FALSE)
       /\ Goto("visado", {visado_branch(r) : r \in Randint100})
       /\ UNCHANGED <<stack, n, i, cases_ids, Bills, Variants, request, response>>
    \/ /\ pc = "visado_368"
       /\ update_case(DevolucionComercialVisado, Visado, FALSE)
       /\ Jump("visado")
       /\ UNCHANGED <<stack, n, i, cases_ids, Bills, Variants, request, response>>

\* revision_emision, lines 414-445.
revision_emision ==
    \/ /\ pc = "revision_emision"
       /\ update_case(RevisionEmision, NoTarget, FALSE)
       /\ Goto("revision_emision",
               {revision_emision_branch(r) : r \in Randint100})
       /\ UNCHANGED <<stack, n, i, cases_ids, Bills, Variants, request, response>>
    \/ /\ pc = "revision_emision_417"
       /\ update_case(DevolucionComercialEmision, RevisionEmision, FALSE)
       /\ Jump("revision_emision")
       /\ UNCHANGED <<stack, n, i, cases_ids, Bills, Variants, request, response>>
    \/ /\ pc = "revision_emision_429"
       /\ update_case(DevolucionVisadoEmision, Visado, FALSE)
       /\ Jump("visado")
       /\ UNCHANGED <<stack, n, i, cases_ids, Bills, Variants, request, response>>
    \/ /\ pc = "revision_emision_441"
       /\ update_case(ControlCalidad, NoTarget, FALSE)
       /\ Jump("revision_emision_442")
       /\ UNCHANGED <<stack, n, i, cases_ids, Bills, Variants, request, response>>
    \/ /\ pc = "revision_emision_442"
       /\ update_case(DevolucionControlCalidad, NoTarget, FALSE)
       /\ Jump("iniciar_facturacion")
       /\ UNCHANGED <<stack, n, i, cases_ids, Bills, Variants, request, response>>

\* The updates that follow the Bill loop, with line 481 ('Respuesta SRI') left
\* out.
iniciar_facturacion_steps_no_SRI ==
    <<[at |-> "iniciar_facturacion_478", name |-> ContabilizarFactura,
       to |-> "iniciar_facturacion_479"],
      [at |-> "iniciar_facturacion_479", name |-> GenerarPoliza,
       to |-> "iniciar_facturacion_480"],
      [at |-> "iniciar_facturacion_480", name |-> EnviarFacturaElectronica,
       to |-> "iniciar_facturacion_482"],
      [at |-> "iniciar_facturacion_482", name |-> EnviarPolizaElectronica,
       to |-> "iniciar_facturacion_483"],
      [at |-> "iniciar_facturacion_483", name |-> FirmaPolizaElectronica,
       to |-> "finalizar_poliza_factura_cliente"]>>

\* The updates of lines 478-484 with the policy generated before the invoice
\* is posted.
iniciar_facturacion_steps_swapped ==
    <<[at |-> "iniciar_facturacion_478", name |-> GenerarPoliza,
       to |-> "iniciar_facturacion_479"],
      [at |-> "iniciar_facturacion_479", name |-> ContabilizarFactura,
       to |-> "iniciar_facturacion_480"],
      [at |-> "iniciar_facturacion_480", name |-> EnviarFacturaElectronica,
       to |-> "iniciar_facturacion_481"],
      [at |-> "iniciar_facturacion_481", name |-> RespuestaSRI,
       to |-> "iniciar_facturacion_482"],
      [at |-> "iniciar_facturacion_482", name |-> EnviarPolizaElectronica,
       to |-> "iniciar_facturacion_483"],
      [at |-> "iniciar_facturacion_483", name |-> FirmaPolizaElectronica,
       to |-> "finalizar_poliza_factura_cliente"]>>

\* iniciar_facturacion, lines 478-484: the updates that follow the Bill loop,
\* each with the place it runs at and the place that runs next.
iniciar_facturacion_steps ==
    <<[at |-> "iniciar_facturacion_478", name |-> ContabilizarFactura,
       to |-> "iniciar_facturacion_479"],
      [at |-> "iniciar_facturacion_479", name |-> GenerarPoliza,
       to |-> "iniciar_facturacion_480"],
      [at |-> "iniciar_facturacion_480", name |-> EnviarFacturaElectronica,
       to |-> "iniciar_facturacion_481"],
      [at |-> "iniciar_facturacion_481", name |-> RespuestaSRI,
       to |-> "iniciar_facturacion_482"],
      [at |-> "iniciar_facturacion_482", name |-> EnviarPolizaElectronica,
       to |-> "iniciar_facturacion_483"],
      [at |-> "iniciar_facturacion_483", name |-> FirmaPolizaElectronica,
       to |-> "finalizar_poliza_factura_cliente"]>>

\* iniciar_facturacion whose Bill loop advances case.last_timestamp itself
\* instead of a copy of it.
iniciar_facturacion_loop_on_case ==
    \/ /\ pc = "iniciar_facturacion"
       /\ update_case(IniciarFacturacion, NoTarget, FALSE)
       /\ Jump("iniciar_facturacion_472")
       /\ UNCHANGED <<stack, n, i, cases_ids, Bills, Variants, request, response>>
    \/ /\ pc = "iniciar_facturacion_472"
       /\ Len(Activities) < ActsBound(n)
       /\ \E d \in Deltas(Len(Activities)) :
             LET advanced == AdvanceCase(case, GenerarFactura, d)
                 bills == BillLoop(Bills, case.case_id, case.value,
                                   advanced.last_timestamp, Now)
             IN  /\ Activities' = write_in_file(Activities, advanced,
                                                GenerarFactura)
                 /\ Cases' = SaveState(Cases, case.case_id, GenerarFactura)
                 /\ Bills' = bills
                 /\ case' = [advanced EXCEPT !.last_timestamp =
                                 @ + (Len(bills) - Len(Bills)) * BillPeriod]
       /\ Reworks' = Reworks
       /\ Jump("iniciar_facturacion_478")
       /\ UNCHANGED <<stack, n, i, cases_ids, Variants, request, response>>
    \/ /\ \E k \in 1..Len(iniciar_facturacion_steps) :
             /\ pc = iniciar_facturacion_steps[k].at
             /\ update_case(iniciar_facturacion_steps[k].name, NoTarget, FALSE)
             /\ Jump(iniciar_facturacion_steps[k].to)
       /\ UNCHANGED <<stack, n, i, cases_ids, Bills, Variants, request, response>>

\* iniciar_facturacion, lines 471-484.
iniciar_facturacion ==
    \/ /\ pc = "iniciar_facturacion"
       /\ update_case(IniciarFacturacion, NoTarget, FALSE)
       /\ Jump("iniciar_facturacion_472")
       /\ UNCHANGED <<stack, n, i, cases_ids, Bills, Variants, request, response>>
    \/ /\ pc = "iniciar_facturacion_472"
       /\ update_case(GenerarFactura, NoTarget, FALSE)
       /\ Bills' = BillLoop(Bills, case.case_id, case.value,
                            case'.last_timestamp, Now)
       /\ Jump("iniciar_facturacion_478")
       /\ UNCHANGED <<stack, n, i, cases_ids, Variants, request, response>>
    \/ /\ \E k \in 1..Len(iniciar_facturacion_steps) :
             /\ pc = iniciar_facturacion_steps[k].at
             /\ update_case(iniciar_facturacion_steps[k].name, NoTarget, FALSE)
             /\ Jump(iniciar_facturacion_steps[k].to)
       /\ UNCHANGED <<stack, n, i, cases_ids, Bills, Variants, request, response>>

\* finalizar_poliza_factura_cliente whose return to commercial ends the
\* handler instead of calling it again.
finalizar_poliza_factura_cliente_gives_up ==
    \/ /\ pc = "finalizar_poliza_factura_cliente"
       /\ update_case(FinalizarEnvio, NoTarget, FALSE)
       /\ Goto("finalizar_poliza_factura_cliente",
               {finalizar_branch(r) : r \in Randint100})
       /\ UNCHANGED <<stack, n, i, cases_ids, Bills, Variants, request, response>>
    \/ /\ pc = "finalizar_poliza_factura_cliente_514"
       /\ update_case(FinalizarProceso, NoTarget, FALSE)
       /\ Jump("finalizar_poliza_factura_cliente_515")
       /\ UNCHANGED <<stack, n, i, cases_ids, Bills, Variants, request, response>>
    \/ /\ pc = "finalizar_poliza_factura_cliente_515"
       /\ update_case(RecepcionPago, NoTarget, TRUE)
       /\ Jump(ReturnTo(stack))
       /\ stack' = PopFrame(stack)
       /\ UNCHANGED <<n, i, cases_ids, Bills, Variants, request, response>>
    \/ /\ pc = "finalizar_poliza_factura_cliente_522"
       /\ update_case(DevolucionEmisionCorregir, FinalizarEnvio, FALSE)
       /\ Jump("finalizar_poliza_factura_cliente")
       /\ UNCHANGED <<stack, n, i, cases_ids, Bills, Variants, request, response>>
    \/ /\ pc = "finalizar_poliza_factura_cliente_534"
       /\ update_case(DevolucionComercialCorregir, FinalizarEnvio, FALSE)
       /\ Jump(ReturnTo(stack))
       /\ stack' = PopFrame(stack)
       /\ UNCHANGED <<n, i, cases_ids, Bills, Variants, request, response>>

\* finalizar_poliza_factura_cliente, lines 509-544.
finalizar_poliza_factura_cliente ==
    \/ /\ pc = "finalizar_poliza_factura_cliente"
       /\ update_case(FinalizarEnvio, NoTarget, FALSE)
       /\ Goto("finalizar_poliza_factura_cliente",
               {finalizar_branch(r) : r \in Randint100})
       /\ UNCHANGED <<stack, n, i, cases_ids, Bills, Variants, request, response>>
    \/ /\ pc = "finalizar_poliza_factura_cliente_514"
       /\ update_case(FinalizarProceso, NoTarget, FALSE)
       /\ Jump("finalizar_poliza_factura_cliente_515")
       /\ UNCHANGED <<stack, n, i, cases_ids, Bills, Variants, request, response>>
    \/ /\ pc = "finalizar_poliza_factura_cliente_515"
       /\ update_case(RecepcionPago, NoTarget, TRUE)
       /\ Jump(ReturnTo(stack))
       /\ stack' = PopFrame(stack)
       /\ UNCHANGED <<n, i, cases_ids, Bills, Variants, request, response>>
    \/ /\ pc = "finalizar_poliza_factura_cliente_522"
       /\ update_case(DevolucionEmisionCorregir, FinalizarEnvio, FALSE)
       /\ Jump("finalizar_poliza_factura_cliente")
       /\ UNCHANGED <<stack, n, i, cases_ids, Bills, Variants, request, response>>
    \/ /\ pc = "finalizar_poliza_factura_cliente_534"
       /\ update_case(DevolucionComercialCorregir, FinalizarEnvio, FALSE)
       /\ Jump("finalizar_poliza_factura_cliente")
       /\ UNCHANGED <<stack, n, i, cases_ids, Bills, Variants, request, response>>

\* One step of the engine: the run of one case in progress.
Engine ==
    \/ ingresar_tramite
    \/ registrar_PO
    \/ registro_de_compromiso
    \/ enviar_revision_suscripcion
    \/ validar_info_enviada
    \/ revision_suscripcion
    \/ aprobar_suscripcion_local
    \/ aceptar_brocker
    \/ visado
    \/ revision_emision
    \/ iniciar_facturacion
    \/ finalizar_poliza_factura_cliente

(*************************** analytics passes ******************************)
\* The timestamps of a sequence of Activity rows, a set.
Timestamps(acts) == {acts[k].timestamp : k \in 1..Len(acts)}

\* add_time_to_cases that saves a Case row built anew with the avg_time: the
\* state and the approval of the engine are lost.
AddTimeToCasesFreshRow(rows, acts) ==
    [id \in DOMAIN rows |->
        LET times == Timestamps(CaseActivities(acts, id))
        IN  [rows[id] EXCEPT !.avg_time = Max(times) - Min(times),
                             !.state = "Start", !.approved = FALSE]]

\* add_time_to_cases, lines 753-759: every Case row with its avg_time set to
\* last - first timestamp of its Activities ordered by timestamp.
AddTimeToCases(rows, acts) ==
    [id \in DOMAIN rows |->
        LET times == Timestamps(CaseActivities(acts, id))
        IN  [rows[id] EXCEPT !.avg_time = Max(times) - Min(times)]]

\* create_variants, lines 587-592: the case ids in the order the scan of
\* Activity.objects.all() meets them first.
RECURSIVE CasesSeen(_)
CasesSeen(acts) ==
    IF acts = <<>> THEN <<>>
    ELSE LET before == CasesSeen(SubSeq(acts, 1, Len(acts) - 1))
             case_id == acts[Len(acts)].case
         IN  IF \E k \in 1..Len(before) : before[k] = case_id
             THEN before
             ELSE Append(before, case_id)

\* variants[case_id] with a stage name kept only at its first visit: the key
\* does not count the repetitions of a stage.
RECURSIVE VariantKeyFirstVisits(_, _)
VariantKeyFirstVisits(acts, case_id) ==
    IF acts = <<>> THEN <<>>
    ELSE LET before == VariantKeyFirstVisits(SubSeq(acts, 1, Len(acts) - 1),
                                             case_id)
             a == acts[Len(acts)]
         IN  IF a.case = case_id /\ \A k \in 1..Len(before) : before[k] # a.name
             THEN Append(before, a.name)
             ELSE before

\* create_variants, line 604: variants[case_id], the Activity names of a case
\* in the order of the scan.
VariantKey(acts, case_id) == Names(CaseActivities(acts, case_id))

\* grouped_data with every case filed under a key of its own, whether or not
\* an earlier case has the same Activity names.
RECURSIVE GroupedDataNoMerge(_, _)
GroupedDataNoMerge(acts, cases) ==
    IF cases = <<>> THEN <<>>
    ELSE LET before == GroupedDataNoMerge(acts, SubSeq(cases, 1, Len(cases) - 1))
             case_id == cases[Len(cases)]
             key == VariantKey(acts, case_id)
         IN  IF \E g \in 1..Len(before) : before[g].key = key
             THEN before
             ELSE Append(before, [key |-> key, value |-> <<case_id>>])

\* create_variants, lines 607-609: grouped_data as a sequence of
\* [key, value] in the insertion order of the dict, value the case ids that
\* share the key.
RECURSIVE GroupedData(_, _)
GroupedData(acts, cases) ==
    IF cases = <<>> THEN <<>>
    ELSE LET before == GroupedData(acts, SubSeq(cases, 1, Len(cases) - 1))
             case_id == cases[Len(cases)]
             key == VariantKey(acts, case_id)
         IN  IF \E g \in 1..Len(before) : before[g].key = key
             THEN [g \in 1..Len(before) |->
                      IF before[g].key = key
                      THEN [before[g] EXCEPT !.value = Append(@, case_id)]
                      ELSE before[g]]
             ELSE Append(before, [key |-> key, value |-> <<case_id>>])

\* total_duration that adds the duration of the first case of the group once
\* for every case of the group.
TotalDurationOfFirst(acts, value) ==
    IF value = <<>> THEN 0
    ELSE LET times == Timestamps(CaseActivities(acts, Head(value)))
         IN  (Max(times) - Min(times)) * Len(value)

\* create_variants, lines 619-624: total_duration over the cases of a group.
RECURSIVE TotalDuration(_, _)
TotalDuration(acts, value) ==
    IF value = <<>> THEN 0
    ELSE LET times == Timestamps(CaseActivities(acts, Head(value)))
         IN  (Max(times) - Min(times)) + TotalDuration(acts, Tail(value))

\* create_variants, lines 614-633: the Variant row of one group.  The two
\* float quotients are kept as fractions; activities and cases hold the tuple
\* and the list the source stores as str(key) and str(value).
NewVariant(acts, group, n_cases) ==
    [activities |-> group.key,
     cases |-> group.value,
     number_cases |-> Len(group.value),
     percentage |-> [num |-> Len(group.value) * 100, den |-> n_cases],
     avg_time |-> [num |-> TotalDuration(acts, group.value),
                   den |-> Len(group.value)]]

\* create_variants: the Variant table after the pass.
CreateVariants(variants, acts) ==
    LET cases == CasesSeen(acts)
        grouped_data == GroupedData(acts, cases)
    IN  variants \o [g \in 1..Len(grouped_data) |->
                        NewVariant(acts, grouped_data[g], Len(cases))]

\* order_by('timestamp') over the Activity ids S: every order the database
\* may return, rows of equal timestamp in any order.
RECURSIVE OrderByTimestamp(_, _)
OrderByTimestamp(acts, S) ==
    IF S = {} THEN {<<>>}
    ELSE LET first == {k \in S : \A j \in S : acts[k].timestamp <= acts[j].timestamp}
         IN  UNION {{<<k>> \o rest : rest \in OrderByTimestamp(acts, S \ {k})} :
                       k \in first}

\* The loop of add_TPT with the difference taken the other way round.
SetTPTReversed(acts, activities) ==
    [k \in 1..Len(acts) |->
        IF \E pos \in 1..(Len(activities) - 1) : activities[pos] = k
        THEN LET pos == CHOOSE q \in 1..(Len(activities) - 1) : activities[q] = k
             IN  [acts[k] EXCEPT !.tpt = acts[k].timestamp
                                          - acts[activities[pos + 1]].timestamp]
        ELSE acts[k]]

\* The loop of add_TPT begun at the second Activity of the case: the first
\* one keeps its default tpt.
SetTPTSkipFirst(acts, activities) ==
    [k \in 1..Len(acts) |->
        IF \E pos \in 2..(Len(activities) - 1) : activities[pos] = k
        THEN LET pos == CHOOSE q \in 2..(Len(activities) - 1) : activities[q] = k
             IN  [acts[k] EXCEPT !.tpt = acts[activities[pos + 1]].timestamp
                                          - acts[k].timestamp]
        ELSE acts[k]]

\* add_TPT, lines 660-666: the Activity table after the loop over one case's
\* ordered activities (a sequence of ids).
SetTPT(acts, activities) ==
    [k \in 1..Len(acts) |->
        IF \E pos \in 1..(Len(activities) - 1) : activities[pos] = k
        THEN LET pos == CHOOSE q \in 1..(Len(activities) - 1) : activities[q] = k
             IN  [acts[k] EXCEPT !.tpt = acts[activities[pos + 1]].timestamp
                                          - acts[k].timestamp]
        ELSE acts[k]]

\* add_TPT, lines 656-666: the Activity tables the pass can leave, index_list
\* a set of case_index values still to do.
RECURSIVE AddTPT(_, _)
AddTPT(acts, index_list) ==
    IF index_list = {} THEN {acts}
    ELSE LET index == CHOOSE x \in index_list : TRUE
             S == {k \in 1..Len(acts) : acts[k].case_index = index}
         IN  UNION {AddTPT(SetTPT(acts, activities), index_list \ {index}) :
                       activities \in OrderByTimestamp(acts, S)}

\* add_time_to_cases called from inside the loop, after any iteration.
add_time_to_cases_in_loop ==
    /\ pc = "handle"
    /\ i >= 1
    /\ Cases' = AddTimeToCases(Cases, Activities)
    /\ pc' = "create_variants"
    /\ UNCHANGED <<stack, n, i, cases_ids, case, Activities, Reworks, Bills,
                   Variants, draws, request, response>>

\* add_time_to_cases, as handle calls it when the loop is over (line 772).
add_time_to_cases ==
    /\ pc = "handle"
    /\ i = n
    /\ Cases' = AddTimeToCases(Cases, Activities)
    /\ pc' = "create_variants"
    /\ UNCHANGED <<stack, n, i, cases_ids, case, Activities, Reworks, Bills,
                   Variants, draws, request, response>>

\* create_variants, as handle calls it (line 774).
create_variants ==
    /\ pc = "create_variants"
    /\ Variants' = CreateVariants(Variants, Activities)
    /\ pc' = "add_TPT"
    /\ UNCHANGED <<stack, n, i, cases_ids, case, Cases, Activities, Reworks, Bills,
                   draws, request, response>>

\* add_TPT, as handle calls it (line 776); handle then prints the mean time
\* per activity name (line 779), which stores nothing.
add_TPT ==
    /\ pc = "add_TPT"
    /\ Activities' \in AddTPT(Activities,
                              {Activities[k].case_index : k \in 1..Len(Activities)})
    /\ pc' = "done"
    /\ UNCHANGED <<stack, n, i, cases_ids, case, Cases, Reworks, Bills, Variants,
                   draws, request, response>>

\* The generation loop of handle.
Generate == start \/ Engine

\* handle, lines 767-779.
Next == Generate \/ add_time_to_cases \/ create_variants \/ add_TPT

\* A run of handle that generates one case.
Spec == Init /\ [][Next]_vars

\* A run of handle that generates NumCases cases.
SpecRun == InitRun /\ [][Next]_vars

\* add_time_to_cases, called a second time when handle has finished.
add_time_to_cases_again ==
    /\ pc = "done"
    /\ Cases' = AddTimeToCases(Cases, Activities)
    /\ pc' = "create_variants_again"
    /\ UNCHANGED <<stack, n, i, cases_ids, case, Activities, Reworks, Bills,
                   Variants, draws, request, response>>

\* create_variants, called a second time.
create_variants_again ==
    /\ pc = "create_variants_again"
    /\ Variants' = CreateVariants(Variants, Activities)
    /\ pc' = "add_TPT_again"
    /\ UNCHANGED <<stack, n, i, cases_ids, case, Cases, Activities, Reworks, Bills,
                   draws, request, response>>

\* add_TPT, called a second time.
add_TPT_again ==
    /\ pc = "add_TPT_again"
    /\ Activities' \in AddTPT(Activities,
                              {Activities[k].case_index : k \in 1..Len(Activities)})
    /\ pc' = "done_again"
    /\ UNCHANGED <<stack, n, i, cases_ids, case, Cases, Reworks, Bills, Variants,
                   draws, request, response>>

\* The three analytics passes run once more over the unchanged Activity set.
Rerun == add_time_to_cases_again \/ create_variants_again \/ add_TPT_again

\* A run of handle for one case, followed by a second run of the analytics.
SpecRerun == Init /\ [][Next \/ Rerun]_vars

\* The generation loop of handle for one case, in a process that keeps
\* running: a step of the loop that can be taken is taken.
SpecLive == Init /\ [][Generate]_vars /\ WF_vars(Generate)

\* The stage each place that begins with a transition passes to update_case.
StageAt ==
    ("ingresar_tramite" :> IngresarTramite) @@
    ("registrar_PO" :> RegistrarPO) @@
    ("registrar_PO_181" :> DevolucionBrocker) @@
    ("registrar_PO_193" :> EnviarEmision) @@
    ("registro_de_compromiso" :> RegistroCompromiso) @@
    ("enviar_revision_suscripcion" :> EnviarRevisionSuscripcion) @@
    ("validar_info_enviada" :> ValidarInfoEnviada) @@
    ("validar_info_enviada_249" :> DevolverComercial) @@
    ("revision_suscripcion" :> RevisionSuscripcion) @@
    ("revision_suscripcion_288" :> DevolucionSuscripcion) @@
    ("revision_suscripcion_300" :> EnviarSuscripcionLocal) @@
    ("revision_suscripcion_304" :> DeclinarSuscripcion) @@
    ("aprobar_suscripcion_local" :> AprobarSuscripcionLocal) @@
    ("aprobar_suscripcion_local_325" :> EnviarRespuestaComercial) @@
    ("aprobar_suscripcion_local_329" :> RechazarBrocker) @@
    ("aprobar_suscripcion_local_331" :> DeclinarBrocker) @@
    ("aceptar_brocker" :> AceptarBrocker) @@
    ("visado" :> Visado) @@
    ("visado_368" :> DevolucionComercialVisado) @@
    ("revision_emision" :> RevisionEmision) @@
    ("revision_emision_417" :> DevolucionComercialEmision) @@
    ("revision_emision_429" :> DevolucionVisadoEmision) @@
    ("revision_emision_441" :> ControlCalidad) @@
    ("revision_emision_442" :> DevolucionControlCalidad) @@
    ("iniciar_facturacion" :> IniciarFacturacion) @@
    ("iniciar_facturacion_472" :> GenerarFactura) @@
    ("finalizar_poliza_factura_cliente" :> FinalizarEnvio) @@
    ("finalizar_poliza_factura_cliente_514" :> FinalizarProceso) @@
    ("finalizar_poliza_factura_cliente_515" :> RecepcionPago) @@
    ("finalizar_poliza_factura_cliente_522" :> DevolucionEmisionCorregir) @@
    ("finalizar_poliza_factura_cliente_534" :> DevolucionComercialCorregir) @@
    ("iniciar_facturacion_478" :> ContabilizarFactura) @@
    ("iniciar_facturacion_479" :> GenerarPoliza) @@
    ("iniciar_facturacion_480" :> EnviarFacturaElectronica) @@
    ("iniciar_facturacion_481" :> RespuestaSRI) @@
    ("iniciar_facturacion_482" :> EnviarPolizaElectronica) @@
    ("iniciar_facturacion_483" :> FirmaPolizaElectronica)

\* A storage failure that rolls the failed case back: its Activities are
\* deleted.
storage_failure_rollback ==
    /\ pc \in DOMAIN StageAt
    /\ case' = case
    /\ Activities' = SelectSeq(Activities, LAMBDA a : a.case # case.case_id)
    /\ pc' = "aborted"
    /\ stack' = <<>>
    /\ UNCHANGED <<n, i, cases_ids, Cases, Reworks, Bills, Variants, draws, request, response>>

\* A storage operation raises during the transition of the place the case is
\* at.  No caller catches the exception (the command has no try), so it
\* leaves start and handle and the command is aborted.  Lines 86-87 have run;
\* the operation that fails is the read or the save of the Case row (lines
\* 88-90), with nothing of the transition stored, or the creation of the
\* Activity (lines 60-69), with the new state of the Case row stored.
storage_failure ==
    /\ pc \in DOMAIN StageAt
    /\ \E d \in Deltas(Len(Activities)) :
          case' = AdvanceCase(case, StageAt[pc], d)
    /\ \/ Cases' = Cases
       \/ Cases' = SaveState(Cases, case.case_id, StageAt[pc])
    /\ pc' = "aborted"
    /\ stack' = <<>>
    /\ UNCHANGED <<n, i, cases_ids, Activities, Reworks, Bills, Variants, draws, request, response>>

\* A run of handle for NumCases cases on a database whose operations may fail.
SpecFail == InitRun /\ [][Next \/ storage_failure]_vars

\* The initial timestamps of the cases that enter billing in SpecBilling:
\* from BillSpan before Now to past Now.
BillStarts == (Now - BillSpan)..(Now + BillPeriod)

\* A Renewal case that start sent to visado has logged 'Visado' and 'Revision
\* en emision' and enters iniciar_facturacion (revision_emision, line 445).
InitBilling ==
    /\ n = 1
    /\ pc = "iniciar_facturacion"
    /\ stack = <<"registro_de_compromiso">>
    /\ i = 1
    /\ cases_ids = <<1>>
    /\ \E initial_timestamp \in BillStarts, value \in Values(0) :
          /\ case = [case_id |-> 1, type |-> Renewal,
                     last_timestamp |-> initial_timestamp + Delta + Delta,
                     state |-> RevisionEmision, value |-> value]
          /\ Cases = [id \in {1} |->
                         [type |-> Renewal, state |-> RevisionEmision,
                          approved |-> FALSE, avg_time |-> 0, value |-> value]]
          /\ Activities =
                 <<[case |-> 1, name |-> Visado,
                    timestamp |-> initial_timestamp + Delta,
                    case_index |-> 1, tpt |-> 0],
                   [case |-> 1, name |-> RevisionEmision,
                    timestamp |-> initial_timestamp + Delta + Delta,
                    case_index |-> 1, tpt |-> 0]>>
    /\ Reworks = <<>>
    /\ Bills = <<>>
    /\ Variants = <<>>
    /\ draws = <<[case |-> 1, at |-> "start", to |-> "visado"],
                 [case |-> 1, at |-> "visado", to |-> "revision_emision"],
                 [case |-> 1, at |-> "revision_emision",
                  to |-> "iniciar_facturacion"]>>
    /\ request = NoRequest
    /\ response = NoResponse

\* One entry into the billing stage, from line 471 to the call of line 484.
SpecBilling == InitBilling /\ [][iniciar_facturacion]_vars

(****************************** properties *********************************)
\* The names of the Activities of case cid, in insertion order.
CaseNames(cid) == Names(CaseActivities(Activities, cid))

\* The places of handle at which no run of a case is in progress.
HandlePlaces == {"handle", "create_variants", "add_TPT", "done"}

\* The run of case cid has ended: start() has returned to handle.
CaseOver(cid) ==
    /\ cid \in DOMAIN Cases
    /\ case.case_id # cid \/ pc \in HandlePlaces

\* The places whose code begins with a call of update_case: every place of a
\* handler but line 302 of revision_suscripcion, which only draws.
UpdatePlaces ==
    {"ingresar_tramite", "registrar_PO", "registrar_PO_181", "registrar_PO_193",
     "registro_de_compromiso", "enviar_revision_suscripcion",
     "validar_info_enviada", "validar_info_enviada_249",
     "revision_suscripcion", "revision_suscripcion_288",
     "revision_suscripcion_300", "revision_suscripcion_304",
     "aprobar_suscripcion_local", "aprobar_suscripcion_local_325",
     "aprobar_suscripcion_local_329", "aprobar_suscripcion_local_331",
     "aceptar_brocker", "visado", "visado_368",
     "revision_emision", "revision_emision_417", "revision_emision_429",
     "revision_emision_441", "revision_emision_442",
     "iniciar_facturacion", "iniciar_facturacion_472",
     "iniciar_facturacion_478", "iniciar_facturacion_479",
     "iniciar_facturacion_480", "iniciar_facturacion_481",
     "iniciar_facturacion_482", "iniciar_facturacion_483",
     "finalizar_poliza_factura_cliente",
     "finalizar_poliza_factura_cliente_514",
     "finalizar_poliza_factura_cliente_515",
     "finalizar_poliza_factura_cliente_522",
     "finalizar_poliza_factura_cliente_534"}

\* C1: every case whose run has ended with approved = true has exactly one
\* 'Recepcion pago' Activity, and that Activity is the last one of the case.
C1_ApprovedEndsAtPayment ==
    \A cid \in DOMAIN Cases :
        (CaseOver(cid) /\ Cases[cid].approved) =>
            LET names == CaseNames(cid)
            IN  /\ Cardinality({k \in 1..Len(names) : names[k] = RecepcionPago}) = 1
                /\ names[Len(names)] = RecepcionPago

\* C2: for every case, at every point of the generation, the Activities of
\* the case in insertion order have non-decreasing timestamps.
C2_TimestampsNonDecreasing ==
    \A cid \in DOMAIN Cases :
        LET mine == CaseActivities(Activities, cid)
        IN  \A k \in 1..(Len(mine) - 1) :
                mine[k].timestamp <= mine[k + 1].timestamp

\* A case has logged a transition at the timestamp of the one before it and
\* a later transition at a greater timestamp.
C2_Witness ==
    \E k \in 1..Len(Activities) :
        /\ k + 2 <= Len(Activities)
        /\ Activities[k].case = Activities[k + 2].case
        /\ Activities[k].case = Activities[k + 1].case
        /\ Activities[k].timestamp = Activities[k + 1].timestamp
        /\ Activities[k + 1].timestamp < Activities[k + 2].timestamp

\* What one call of update_case does to the working case, the Case row and
\* the Activity table; delta_ok is the relation between the working
\* timestamp before and after the call.
TransitionLogged(delta_ok) ==
    /\ Len(Activities') = Len(Activities) + 1
    /\ SubSeq(Activities', 1, Len(Activities)) = Activities
    /\ Activities'[Len(Activities')].case = case.case_id
    /\ Activities'[Len(Activities')].name = case'.state
    /\ Activities'[Len(Activities')].timestamp = case'.last_timestamp
    /\ Cases'[case.case_id].state = case'.state
    /\ case'.case_id = case.case_id
    /\ delta_ok

\* C3 as stated: every stage transition appends exactly one Activity, with
\* the new stage name and the working timestamp advanced by a positive delta.
C3_PositiveDelta ==
    [][(pc \in UpdatePlaces) =>
           TransitionLogged(case'.last_timestamp > case.last_timestamp)]_vars

\* C3: every stage transition appends exactly one Activity for the case, with
\* the new stage name and the working timestamp advanced by a delta that is
\* not negative; a step that is not a stage transition appends none.
C3_TransitionLogged ==
    [][IF pc \in UpdatePlaces
       THEN TransitionLogged(case'.last_timestamp >= case.last_timestamp)
       ELSE Len(Activities') = Len(Activities)]_vars

\* The first transition of a case added a positive delta and the second one
\* a delta of zero.
C3_Witness ==
    /\ Len(Activities) = 2
    /\ Activities[1].timestamp \notin InitialTimestamps
    /\ Activities[2].timestamp = Activities[1].timestamp
    /\ Activities[2].name = case.state

\* The sum of number_cases over a sequence of Variant rows.
RECURSIVE SumNumberCases(_)
SumNumberCases(variants) ==
    IF variants = <<>> THEN 0
    ELSE Head(variants).number_cases + SumNumberCases(Tail(variants))

\* The places <<g, k>> at which case id cid stands in the cases of a Variant.
VariantPlaces(cid) ==
    {gk \in (1..Len(Variants)) \X (1..NumCases) :
        /\ gk[2] <= Len(Variants[gk[1]].cases)
        /\ Variants[gk[1]].cases[gk[2]] = cid}

\* C4: once all cases are generated and create_variants has run, the sum of
\* number_cases over the Variant rows is the number of cases, and every case
\* id stands in the cases of exactly one Variant, once.
C4_VariantsPartitionCases ==
    pc \in {"add_TPT", "done"} =>
        /\ SumNumberCases(Variants) = Cardinality(DOMAIN Cases)
        /\ \A cid \in DOMAIN Cases : Cardinality(VariantPlaces(cid)) = 1
        /\ \A g \in 1..Len(Variants) :
              /\ Variants[g].number_cases = Len(Variants[g].cases)
              /\ Variants[g].number_cases <= NumCases
              /\ \A k \in 1..Len(Variants[g].cases) :
                    Variants[g].cases[k] \in DOMAIN Cases

\* create_variants has stored a Variant that two of the cases share.
C4_Witness ==
    /\ pc = "add_TPT"
    /\ Cardinality(DOMAIN Cases) = NumCases
    /\ \E g \in 1..Len(Variants) : Variants[g].number_cases >= 2

\* The draws of case cid, oldest first: the places they led to.
CaseDraws(cid) ==
    LET mine == SelectSeq(draws, LAMBDA d : d.case = cid)
    IN  [k \in 1..Len(mine) |-> mine[k].to]

\* s is a prefix of t.
IsPrefix(s, t) == Len(s) <= Len(t) /\ s = SubSeq(t, 1, Len(s))

\* The draws of the direct subscription path: no 'Validar info enviada', no
\* return, local underwriting, no decline, the broker accepts, emission review
\* straight to billing, success in finalization.
DirectDraws ==
    <<"revision_suscripcion", "revision_suscripcion_300",
      "aprobar_suscripcion_local", "aceptar_brocker", "revision_emision",
      "iniciar_facturacion", "finalizar_poliza_factura_cliente_514">>

\* The stages of the direct subscription path after Start.
DirectPath ==
    <<RegistroCompromiso, EnviarRevisionSuscripcion, RevisionSuscripcion,
      EnviarSuscripcionLocal, AprobarSuscripcionLocal, EnviarRespuestaComercial,
      AceptarBrocker, Visado, RevisionEmision, IniciarFacturacion,
      GenerarFactura, ContabilizarFactura, GenerarPoliza,
      EnviarFacturaElectronica, RespuestaSRI, EnviarPolizaElectronica,
      FirmaPolizaElectronica, FinalizarEnvio, FinalizarProceso, RecepcionPago>>

\* C5: an Issuance case whose draws are those of the direct subscription path
\* starts in state Start and then records exactly the stages of the direct
\* path, in order; when its run ends it has recorded all of them, it is
\* approved and it has no Rework.
C5_DirectIssuancePath ==
    \A cid \in DOMAIN Cases :
        (Cases[cid].type = Issuance /\ IsPrefix(CaseDraws(cid), DirectDraws)) =>
            LET names == CaseNames(cid)
            IN  /\ IsPrefix(names, DirectPath)
                /\ Cases[cid].state =
                       IF names = <<>> THEN "Start" ELSE names[Len(names)]
                /\ Cases[cid].approved = (names = DirectPath)
                /\ \A q \in 1..Len(Reworks) :
                       Activities[Reworks[q].activity].case # cid
                /\ CaseOver(cid) => names = DirectPath

\* The run of an Issuance case with the draws of the direct path has ended.
C5_Witness ==
    \E cid \in DOMAIN Cases :
        /\ Cases[cid].type = Issuance
        /\ CaseDraws(cid) = DirectDraws
        /\ CaseOver(cid)
        /\ Len(CaseNames(cid)) = Len(DirectPath)

\* The stages of the subscription flow of Renewal and Issuance cases.
SubscriptionStages ==
    {RegistroCompromiso, EnviarRevisionSuscripcion, ValidarInfoEnviada,
     DevolverComercial, RevisionSuscripcion, DevolucionSuscripcion,
     EnviarSuscripcionLocal, DeclinarSuscripcion, AprobarSuscripcionLocal,
     EnviarRespuestaComercial, RechazarBrocker, DeclinarBrocker, AceptarBrocker}

\* C6: the first Activity of a Policy onboarding case is 'Ingresar tramite',
\* the second 'Registrar PO', and the case never records 'Registro de
\* compromiso' or another stage of the subscription flow.
C6_OnboardingFlowOnly ==
    \A cid \in DOMAIN Cases :
        Cases[cid].type = PolicyOnboarding =>
            LET names == CaseNames(cid)
            IN  /\ Len(names) >= 1 => names[1] = IngresarTramite
                /\ Len(names) >= 2 => names[2] = RegistrarPO
                /\ \A k \in 1..Len(names) : names[k] \notin SubscriptionStages

\* The place the draw of start led case cid to; an Issuance case makes no
\* draw in start and goes to registro_de_compromiso.
StartPlace(cid) ==
    LET mine == SelectSeq(draws, LAMBDA d : d.case = cid /\ d.at = "start")
    IN  IF mine = <<>> THEN "registro_de_compromiso" ELSE mine[1].to

\* C7 as stated: the first Activity of every Renewal or Issuance case is
\* 'Registro de compromiso' and its second 'Enviar a Revision suscripcion'.
C7_RegistroFirst ==
    \A cid \in DOMAIN Cases :
        Cases[cid].type \in {Renewal, Issuance} =>
            LET names == CaseNames(cid)
            IN  /\ Len(names) >= 1 => names[1] = RegistroCompromiso
                /\ Len(names) >= 2 => names[2] = EnviarRevisionSuscripcion

\* C7: the first Activity of an Issuance case, and of a Renewal case whose
\* draw in start is above 50, is 'Registro de compromiso'; the first Activity
\* of a Renewal case whose draw in start is at most 50 is 'Visado'; and in
\* every Renewal or Issuance case the Activity that follows a 'Registro de
\* compromiso' is 'Enviar a Revision suscripcion'.
C7_RegistroFirstUnlessVisado ==
    \A cid \in DOMAIN Cases :
        Cases[cid].type \in {Renewal, Issuance} =>
            LET names == CaseNames(cid)
            IN  /\ Cases[cid].type = Issuance =>
                       StartPlace(cid) = "registro_de_compromiso"
                /\ Len(names) >= 1 =>
                       names[1] = IF StartPlace(cid) = "visado"
                                  THEN Visado
                                  ELSE RegistroCompromiso
                /\ \A k \in 1..(Len(names) - 1) :
                       names[k] = RegistroCompromiso =>
                           names[k + 1] = EnviarRevisionSuscripcion

\* A Renewal case whose draw in start was above 50 has recorded its first two
\* Activities.
C7_Witness ==
    \E cid \in DOMAIN Cases :
        /\ Cases[cid].type = Renewal
        /\ StartPlace(cid) = "registro_de_compromiso"
        /\ Len(CaseNames(cid)) >= 2
        /\ CaseNames(cid)[1] = RegistroCompromiso

\* C8: an Activity named 'Rechazar (perdida) por parte del Brocker' or
\* 'Declinar por parte del Brocker' is the last Activity of its case.
C8_BrokerRefusalTerminal ==
    \A k, j \in 1..Len(Activities) :
        (/\ Activities[k].name \in {RechazarBrocker, DeclinarBrocker}
         /\ Activities[j].case = Activities[k].case) => j <= k

\* The names of the return stages.
ReturnNames ==
    {DevolucionBrocker, DevolverComercial, DevolucionSuscripcion,
     DevolucionComercialVisado, DevolucionComercialEmision,
     DevolucionVisadoEmision, DevolucionEmisionCorregir,
     DevolucionComercialCorregir}

\* The ids of the Activities of case cid that bear a return-stage name.
ReturnActivities(cid) ==
    {k \in CaseActivityIds(Activities, cid) : Activities[k].name \in ReturnNames}

\* The positions of the Rework rows of case cid.
CaseReworks(cid) ==
    {q \in 1..Len(Reworks) : Activities[Reworks[q].activity].case = cid}

\* A step creates a Rework exactly when it logs a return Activity, and the
\* Rework references that Activity, the newest of the case.
ReworkWithReturn ==
    LET logged == Len(Activities') = Len(Activities) + 1
        id == Len(Activities')
    IN  IF logged /\ Activities'[id].name \in ReturnNames
        THEN /\ Len(Reworks') = Len(Reworks) + 1
             /\ SubSeq(Reworks', 1, Len(Reworks)) = Reworks
             /\ Reworks'[Len(Reworks')].activity = id
             /\ Activities'[id].case = case.case_id
        ELSE Reworks' = Reworks

\* C9: for every case the number of Rework rows equals the number of its
\* Activities with a return-stage name, each return Activity is referenced by
\* one Rework, and a Rework is created in the step that logs its return
\* Activity, which is then the newest Activity of the case.
C9_ReworkPerReturn ==
    /\ [](\A cid \in DOMAIN Cases :
             /\ Cardinality(CaseReworks(cid)) = Cardinality(ReturnActivities(cid))
             /\ ReturnActivities(cid) =
                    {Reworks[q].activity : q \in CaseReworks(cid)})
    /\ [][ReworkWithReturn]_vars

\* A case has been returned and has gone on after the return.
C9_Witness ==
    /\ Len(Reworks) >= 1
    /\ Reworks[1].activity < Len(Activities)
    /\ Activities[Reworks[1].activity].name \in ReturnNames

\* The Activities of the case of Rework q that bore its target name when the
\* Rework was created.
TargetActivities(q) ==
    {k \in 1..Reworks[q].activity :
        /\ Activities[k].case = Activities[Reworks[q].activity].case
        /\ Activities[k].name = Reworks[q].target}

\* C10: the cost of every Rework is at least 0; it is 0 when the case had no
\* Activity with the target name at the creation of the Rework, and otherwise
\* the time from the first such Activity to the return Activity.
C10_ReworkCost ==
    \A q \in 1..Len(Reworks) :
        /\ Reworks[q].cost >= 0
        /\ Reworks[q].cost =
               IF TargetActivities(q) = {} THEN 0
               ELSE Activities[Reworks[q].activity].timestamp
                        - Activities[Min(TargetActivities(q))].timestamp

\* An onboarding case has been returned to 'Visado' from emission review
\* without an Activity named 'Visado', after transitions with positive deltas.
C10_Witness ==
    \E q \in 1..Len(Reworks) :
        /\ Reworks[q].target = Visado
        /\ Activities[Reworks[q].activity].name = DevolucionVisadoEmision
        /\ Cases[Activities[Reworks[q].activity].case].type = PolicyOnboarding
        /\ TargetActivities(q) = {}
        /\ Reworks[q].cost = 0
        /\ Activities[Reworks[q].activity].timestamp > Activities[1].timestamp

\* The least integer that is at least a / b, for b > 0.
CeilDiv(a, b) == IF a % b = 0 THEN a \div b ELSE (a \div b) + 1

\* The id of the 'Generar Factura' Activity of the billing entry in progress
\* (0 before line 472 has run).
GenerarFacturaId ==
    LET S == {k \in 1..Len(Activities) : Activities[k].name = GenerarFactura}
    IN  IF S = {} THEN 0 ELSE Max(S)

\* C11: an entry into the billing stage whose 'Generar Factura' timestamp is
\* T, with now N, stores ceil((N - T) / 30 days) Bills when T < N (4 when
\* N - T is 95 days, 2 when it is exactly 60 days) and none when T >= N; the
\* Bills carry the value of the case and the timestamps T, T + 30 days, ...
C11_BillsPerPeriod ==
    IF GenerarFacturaId = 0 THEN Bills = <<>>
    ELSE LET T == Activities[GenerarFacturaId].timestamp
             N == Now
         IN  /\ Len(Bills) = IF T < N THEN CeilDiv(N - T, BillPeriod) ELSE 0
             /\ (N - T = 3 * BillPeriod + 5) => Len(Bills) = 4
             /\ (N - T = 2 * BillPeriod) => Len(Bills) = 2
             /\ \A k \in 1..Len(Bills) :
                   /\ Bills[k].timestamp = T + (k - 1) * BillPeriod
                   /\ Bills[k].value = case.value
                   /\ Bills[k].case = case.case_id

\* A billing entry with N - T of three periods and a sixth has stored 4 Bills
\* and has gone on to 'Contabilizar Factura'.
C11_Witness ==
    /\ GenerarFacturaId # 0
    /\ Now - Activities[GenerarFacturaId].timestamp = 3 * BillPeriod + 5
    /\ Len(Bills) = 4
    /\ case.state = ContabilizarFactura

\* The tpt of the Activities listed in order (ids sorted by timestamp) is what
\* C12 says: 0 for the last one, the time to the next one for the others.
TPTFollows(order) ==
    \A pos \in 1..Len(order) :
        Activities[order[pos]].tpt =
            IF pos = Len(order) THEN 0
            ELSE Activities[order[pos + 1]].timestamp
                     - Activities[order[pos]].timestamp

\* C12: after add_TPT, the Activities of every case sorted by timestamp have
\* tpt 0 on the last one and, on every other one, the time from its own
\* timestamp to that of the Activity that follows it.
C12_TPTToSuccessor ==
    pc = "done" =>
        \A cid \in DOMAIN Cases :
            \E order \in OrderByTimestamp(Activities,
                                          CaseActivityIds(Activities, cid)) :
                TPTFollows(order)

\* add_TPT has run over two cases; one Activity has a positive tpt and one
\* that is not the last of its case has tpt 0 (a tie of timestamps).
C12_Witness ==
    /\ pc = "done"
    /\ Cardinality(DOMAIN Cases) >= 2
    /\ \E k \in 1..Len(Activities) : Activities[k].tpt > 0
    /\ \E k \in 1..(Len(Activities) - 1) :
          /\ Activities[k].case = Activities[k + 1].case
          /\ Activities[k].timestamp = Activities[k + 1].timestamp
          /\ Activities[k].tpt = 0

\* C13: each analytics pass of a second run leaves the table it writes as the
\* first run left it: the avg_time of every Case, the Variant rows (so that
\* number_cases still sums to the number of cases) and the tpt of every
\* Activity.
C13_RerunIdempotent ==
    [][(pc \in {"done", "create_variants_again", "add_TPT_again"}) =>
           /\ Cases' = Cases
           /\ Variants' = Variants
           /\ Activities' = Activities
           /\ SumNumberCases(Variants') = Cardinality(DOMAIN Cases)]_vars

\* The run has stored as many Activities as the model lets a run store.
ActsCapped == Len(Activities) >= ActsBound(n)

PassOrder ==
    {<<"handle", "create_variants">>, <<"create_variants", "add_TPT">>,
     <<"add_TPT", "done">>}

\* C15: the analytics passes run only when all cases of the loop have been
\* generated and their runs have ended, each pass runs once and in the order
\* of handle, and no Activity is appended once the first pass has started.
C15_AnalyticsAfterGeneration ==
    /\ [](pc \in {"create_variants", "add_TPT", "done"} =>
             /\ i = n
             /\ Cardinality(DOMAIN Cases) = n
             /\ stack = <<>>
             /\ \A cid \in DOMAIN Cases : CaseOver(cid))
    /\ [][(pc' \in {"create_variants", "add_TPT", "done"}) =>
              /\ <<pc, pc'>> \in PassOrder
              /\ Len(Activities') = Len(Activities)
              /\ Names(Activities') = Names(Activities)
              /\ i' = i]_vars

\* handle has run every pass over the Activities of all the cases of the loop.
C15_Witness ==
    /\ pc = "done"
    /\ i = NumCases
    /\ Len(Variants) >= 1
    /\ \A cid \in DOMAIN Cases : Len(CaseNames(cid)) >= 1

\* C16: a storage failure in the run of one case does not stop the driver:
\* the command is never aborted while iterations of the loop remain.
C16_FailureIsolated == ~(pc = "aborted" /\ i < n)

\* C17: the step in which a storage operation fails leaves every Activity,
\* Rework, Bill and Variant and the Case rows of the other cases as stored,
\* and after it no transition is made: nothing is retried and no Activity is
\* appended.
C17_NoRollbackNoRetry ==
    [][/\ (pc' = "aborted") =>
              /\ Activities' = Activities
              /\ Reworks' = Reworks
              /\ Bills' = Bills
              /\ Variants' = Variants
              /\ DOMAIN Cases' = DOMAIN Cases
              /\ \A cid \in DOMAIN Cases :
                    cid # case.case_id => Cases'[cid] = Cases[cid]
       /\ (pc = "aborted") => Activities' = Activities]_vars

\* The Activity creation of a transition of the second case has failed after
\* the Case row was saved: the rows of the first case and the earlier
\* Activities of the second are stored.
C17_Witness ==
    /\ pc = "aborted"
    /\ Cardinality(DOMAIN Cases) = 2
    /\ \A cid \in DOMAIN Cases : Len(CaseNames(cid)) >= 1
    /\ Cases[case.case_id].state = case.state
    /\ Cases[case.case_id].state #
           CaseNames(case.case_id)[Len(CaseNames(case.case_id))]

\* C18: the ids new_case_id has returned are pairwise distinct, and after k
\* iterations of the loop there are exactly k Case rows, whose ids are the k
\* ids returned.
C18_CaseIdsDistinct ==
    /\ Len(cases_ids) = i
    /\ \A k, j \in 1..Len(cases_ids) : k # j => cases_ids[k] # cases_ids[j]
    /\ DOMAIN Cases = {cases_ids[k] : k \in 1..Len(cases_ids)}
    /\ Cardinality(DOMAIN Cases) = i

\* The loop has begun all its iterations and the later case has the smaller
\* id.
C18_Witness ==
    /\ i = n
    /\ i >= 2
    /\ cases_ids[i] < cases_ids[1]
    /\ Cardinality(DOMAIN Cases) = i

\* C19: in the log of every case, an Activity named 'Aprobar solicitud en
\* suscripcion local' or 'Declinar solicitud en suscripcion' comes right
\* after an Activity named 'Enviar a suscripcion local'.
C19_DecisionAfterLocal ==
    \A cid \in DOMAIN Cases :
        LET names == CaseNames(cid)
        IN  \A k \in 1..Len(names) :
                names[k] \in {AprobarSuscripcionLocal, DeclinarSuscripcion} =>
                    /\ k >= 2
                    /\ names[k - 1] = EnviarSuscripcionLocal

\* C20: no case has more than one Activity named 'Iniciar facturacion'.
C20_OneBillingEntry ==
    \A cid \in DOMAIN Cases :
        LET names == CaseNames(cid)
        IN  Cardinality({k \in 1..Len(names) : names[k] = IniciarFacturacion}) <= 1

\* C21: the state stored on every Case row is the name of the newest Activity
\* of the case ('Start' while the case has none), also after a transition
\* whose Activity could not be stored: the stored state never names a stage
\* that the log of the case does not end with.
C21_StateMatchesLog ==
    \A cid \in DOMAIN Cases :
        LET mine == CaseActivities(Activities, cid)
        IN  IF mine = <<>>
            THEN Cases[cid].state = "Start"
            ELSE Cases[cid].state = mine[Len(mine)].name

\* C22: every step that creates a Rework creates one, for the newest Activity
\* of the running case (the return Activity); when the case has Activities
\* with the target name, the cost is the timestamp of the return Activity
\* minus the timestamp of the earliest of them, and so more than the time
\* since the latest of them when the target stage was visited at two
\* different times.
C22_CostFromEarliestTarget ==
    [][(Len(Reworks') > Len(Reworks)) =>
           LET rework == Reworks'[Len(Reworks')]
               mine == CaseActivityIds(Activities', case.case_id)
               named == {k \in mine : Activities'[k].name = rework.target}
           IN  /\ Len(Reworks') = Len(Reworks) + 1
               /\ rework.activity = Max(mine)
               /\ rework.activity = Len(Activities')
               /\ named # {} =>
                     /\ rework.cost = Activities'[rework.activity].timestamp
                                          - Activities'[Min(named)].timestamp
                     /\ Activities'[Min(named)].timestamp
                            < Activities'[Max(named)].timestamp
                        => rework.cost > Activities'[rework.activity].timestamp
                                             - Activities'[Max(named)].timestamp
      ]_vars

\* A case that passed 'Visado' twice at different times has been returned
\* from visado, and the cost of the Rework counts from the first 'Visado'.
C22_Witness ==
    \E q \in 1..Len(Reworks) :
        /\ Reworks[q].target = Visado
        /\ Activities[Reworks[q].activity].name = DevolucionComercialVisado
        /\ Cardinality(TargetActivities(q)) >= 2
        /\ Activities[Min(TargetActivities(q))].timestamp
               < Activities[Max(TargetActivities(q))].timestamp
        /\ Reworks[q].cost = Activities[Reworks[q].activity].timestamp
                                 - Activities[Min(TargetActivities(q))].timestamp

\* The ids of the Activities of the case of Rework q stored after its return
\* Activity.
ActivitiesAfterReturn(q) ==
    {k \in (Reworks[q].activity + 1)..Len(Activities) :
        Activities[k].case = Activities[Reworks[q].activity].case}

\* C23: for every Rework, the first Activity the case records after the
\* return Activity of the Rework bears the target stage name of the Rework.
C23_ReworkReentersTarget ==
    \A q \in 1..Len(Reworks) :
        ActivitiesAfterReturn(q) # {} =>
            Activities[Min(ActivitiesAfterReturn(q))].name = Reworks[q].target

\* A case returned to commercial from 'Validar info enviada' has recorded
\* 'Enviar a Revision suscripcion' again, right after the return.
C23_Witness ==
    \E q \in 1..Len(Reworks) :
        /\ Activities[Reworks[q].activity].name = DevolverComercial
        /\ Reworks[q].target = EnviarRevisionSuscripcion
        /\ ActivitiesAfterReturn(q) # {}
        /\ Activities[Min(ActivitiesAfterReturn(q))].name
               = EnviarRevisionSuscripcion

\* The places of finalizar_poliza_factura_cliente.
FinalizarPlaces ==
    {"finalizar_poliza_factura_cliente",
     "finalizar_poliza_factura_cliente_514",
     "finalizar_poliza_factura_cliente_515",
     "finalizar_poliza_factura_cliente_522",
     "finalizar_poliza_factura_cliente_534"}

\* The id of the newest Activity of the running case named name (0 for none).
NewestNamed(name) ==
    LET S == {k \in 1..Len(Activities) :
                 /\ Activities[k].case = case.case_id
                 /\ Activities[k].name = name}
    IN  IF S = {} THEN 0 ELSE Max(S)

\* The running case has an entry into billing that has not been paid yet.
BillingOpen ==
    /\ NewestNamed(IniciarFacturacion) # 0
    /\ NewestNamed(RecepcionPago) < NewestNamed(IniciarFacturacion)

\* The newest entry of the running case into billing has been followed by
\* 'Finalizar proceso de emision' and then, as the next Activity stored,
\* 'Recepcion pago', and the Case row is approved.
BillingPaid ==
    /\ NewestNamed(IniciarFacturacion) # 0
    /\ NewestNamed(RecepcionPago) > NewestNamed(IniciarFacturacion)
    /\ NewestNamed(FinalizarProceso) = NewestNamed(RecepcionPago) - 1
    /\ Cases[case.case_id].approved

C25_ApprovedIffPaid ==
    /\ [](\A cid \in DOMAIN Cases :
             CaseOver(cid) =>
                 (Cases[cid].approved <=>
                      \E k \in CaseActivityIds(Activities, cid) :
                          Activities[k].name = RecepcionPago))
    /\ [][\A cid \in DOMAIN Cases :
             /\ Cases[cid].approved => Cases'[cid].approved
             /\ (~Cases[cid].approved /\ Cases'[cid].approved) =>
                    /\ pc = "finalizar_poliza_factura_cliente_515"
                    /\ cid = case.case_id
                    /\ Activities'[Len(Activities')].name = RecepcionPago]_vars

\* The run of an approved case has ended with transitions made after
\* 'Recepcion pago': the Case row is still approved.
C25_Witness ==
    /\ pc = "handle"
    /\ i = n
    /\ Cases[case.case_id].approved
    /\ \E k \in CaseActivityIds(Activities, case.case_id) :
           /\ Activities[k].name = RecepcionPago
           /\ k < Len(Activities)
    /\ Cases[case.case_id].state # RecepcionPago

\* The stages after which no handler calls another one.
TerminalStages ==
    {RecepcionPago, RechazarBrocker, DeclinarBrocker, DeclinarSuscripcion}

\* C26: when the run of a case has ended, the state of its Case row and the
\* name of its newest Activity are the same terminal stage: 'Recepcion pago',
\* one of the two refusals of the broker, or the decline in subscription.
C26_RunEndsInTerminalStage ==
    \A cid \in DOMAIN Cases :
        CaseOver(cid) =>
            /\ LastActivity(Activities, cid) # 0
            /\ Activities[LastActivity(Activities, cid)].name \in TerminalStages
            /\ Cases[cid].state = Activities[LastActivity(Activities, cid)].name

\* The run of an Issuance case has ended in 'Recepcion pago'.
C26_Witness ==
    /\ pc = "handle"
    /\ i = n
    /\ Cases[case.case_id].type = Issuance
    /\ Cases[case.case_id].state = RecepcionPago
    /\ Activities[Len(Activities)].name = RecepcionPago

\* The values of the draw of line 286 that send the handler to place l.
RevisionDraws(l) == {r \in Randint50 : revision_suscripcion_branch(r) = l}

\* C27: at every visit of 'Revision en suscripcion' one tenth of the values
\* of the draw select the return to 'Enviar a Revision suscripcion' and nine
\* tenths select 'Enviar a suscripcion local'.
C27_ReworkTenPercent ==
    pc = "revision_suscripcion" =>
        /\ 10 * Cardinality(RevisionDraws("revision_suscripcion_288"))
               = Cardinality(Randint50)
        /\ 10 * Cardinality(RevisionDraws("revision_suscripcion_300"))
               = 9 * Cardinality(Randint50)

\* The stages iniciar_facturacion records after 'Iniciar facturacion' (lines
\* 472-483) and the first stage of the handler it calls (line 509), in order.
BillingStages ==
    <<GenerarFactura, ContabilizarFactura, GenerarPoliza,
      EnviarFacturaElectronica, RespuestaSRI, EnviarPolizaElectronica,
      FirmaPolizaElectronica, FinalizarEnvio>>

\* C28: in the log of every case, the Activities that follow an 'Iniciar
\* facturacion' are, one after the other and in this order, the eight billing
\* stages up to 'Finalizar envio poliza y factura al cliente'; when the run
\* of the case has ended all eight are there.
C28_BillingSequence ==
    \A cid \in DOMAIN Cases :
        LET names == CaseNames(cid)
        IN  \A k \in 1..Len(names) :
                names[k] = IniciarFacturacion =>
                    /\ \A j \in 1..Len(BillingStages) :
                           k + j <= Len(names) => names[k + j] = BillingStages[j]
                    /\ CaseOver(cid) => k + Len(BillingStages) <= Len(names)

\* A case has recorded 'Iniciar facturacion' and the eight stages after it.
C28_Witness ==
    \E k \in 1..Len(Activities) :
        /\ Activities[k].name = IniciarFacturacion
        /\ k + Len(BillingStages) <= Len(Activities)
        /\ Activities[k + Len(BillingStages)].name = FinalizarEnvio
        /\ Activities[k + Len(BillingStages)].case = Activities[k].case
        /\ Activities[k + 5].name = RespuestaSRI

\* The Bills a step has appended to the Bill table, in order.
NewBills == SubSeq(Bills', Len(Bills) + 1, Len(Bills'))

\* C29: the step that records 'Generar Factura' at timestamp T appends to
\* the Bill table Bills of timestamps T, T + 30 days, T + 60 days, ..., each
\* earlier than now and with the value and the id of the case; no step
\* changes the Bills stored before it, and no other step stores a Bill.
C29_BillTimestamps ==
    [][/\ Len(Bills') >= Len(Bills)
       /\ SubSeq(Bills', 1, Len(Bills)) = Bills
       /\ IF pc = "iniciar_facturacion_472"
          THEN LET T == Activities'[Len(Activities')].timestamp
               IN  /\ Activities'[Len(Activities')].name = GenerarFactura
                   /\ \A k \in 0..(Len(NewBills) - 1) :
                         /\ NewBills[k + 1].timestamp = T + k * BillPeriod
                         /\ NewBills[k + 1].timestamp < Now
                         /\ NewBills[k + 1].value = Cases[case.case_id].value
                         /\ NewBills[k + 1].case = case.case_id
          ELSE Bills' = Bills]_vars

\* A billing entry has stored three Bills, a period apart from the timestamp
\* of 'Generar Factura', the third one less than a period before now.
C29_Witness ==
    /\ pc = "iniciar_facturacion_478"
    /\ Len(Bills) = 3
    /\ Bills[1].timestamp = Activities[GenerarFacturaId].timestamp
    /\ Bills[3].timestamp = Bills[1].timestamp + 2 * BillPeriod
    /\ Bills[3].timestamp < Now
    /\ Bills[3].timestamp + BillPeriod >= Now
    /\ Bills[3].value = Cases[case.case_id].value

(**************** create_variants on logs with repeated stages *************)
\* Four runs of the engine from registro_de_compromiso to the decline in
\* subscription, each with one return: the stage names update_case records
\* and the draws made, in order.  The first two differ in the number of
\* visits of 'Validar info enviada' only, the last two in the order of the
\* same visits only.
VariantRuns ==
    {[names |-> <<RegistroCompromiso, EnviarRevisionSuscripcion,
                  ValidarInfoEnviada, DevolverComercial,
                  EnviarRevisionSuscripcion, ValidarInfoEnviada,
                  RevisionSuscripcion, EnviarSuscripcionLocal,
                  DeclinarSuscripcion>>,
      draws |-> <<<<"enviar_revision_suscripcion", "validar_info_enviada">>,
                  <<"validar_info_enviada", "validar_info_enviada_249">>,
                  <<"enviar_revision_suscripcion", "validar_info_enviada">>,
                  <<"validar_info_enviada", "revision_suscripcion">>,
                  <<"revision_suscripcion", "revision_suscripcion_300">>,
                  <<"revision_suscripcion_302", "revision_suscripcion_304">>>>],
     [names |-> <<RegistroCompromiso, EnviarRevisionSuscripcion,
                  ValidarInfoEnviada, DevolverComercial,
                  EnviarRevisionSuscripcion,
                  RevisionSuscripcion, EnviarSuscripcionLocal,
                  DeclinarSuscripcion>>,
      draws |-> <<<<"enviar_revision_suscripcion", "validar_info_enviada">>,
                  <<"validar_info_enviada", "validar_info_enviada_249">>,
                  <<"enviar_revision_suscripcion", "revision_suscripcion">>,
                  <<"revision_suscripcion", "revision_suscripcion_300">>,
                  <<"revision_suscripcion_302", "revision_suscripcion_304">>>>],
     [names |-> <<RegistroCompromiso, EnviarRevisionSuscripcion,
                  ValidarInfoEnviada, RevisionSuscripcion,
                  DevolucionSuscripcion, EnviarRevisionSuscripcion,
                  RevisionSuscripcion, EnviarSuscripcionLocal,
                  DeclinarSuscripcion, DeclinarSuscripcion>>,
      draws |-> <<<<"enviar_revision_suscripcion", "validar_info_enviada">>,
                  <<"validar_info_enviada", "revision_suscripcion">>,
                  <<"revision_suscripcion", "revision_suscripcion_288">>,
                  <<"enviar_revision_suscripcion", "revision_suscripcion">>,
                  <<"revision_suscripcion", "revision_suscripcion_300">>,
                  <<"revision_suscripcion_302", "revision_suscripcion_304">>,
                  <<"revision_suscripcion_302", "revision_suscripcion_304">>>>],
     [names |-> <<RegistroCompromiso, EnviarRevisionSuscripcion,
                  RevisionSuscripcion, DevolucionSuscripcion,
                  EnviarRevisionSuscripcion, ValidarInfoEnviada,
                  RevisionSuscripcion, EnviarSuscripcionLocal,
                  DeclinarSuscripcion, DeclinarSuscripcion>>,
      draws |-> <<<<"enviar_revision_suscripcion", "revision_suscripcion">>,
                  <<"revision_suscripcion", "revision_suscripcion_288">>,
                  <<"enviar_revision_suscripcion", "validar_info_enviada">>,
                  <<"validar_info_enviada", "revision_suscripcion">>,
                  <<"revision_suscripcion", "revision_suscripcion_300">>,
                  <<"revision_suscripcion_302", "revision_suscripcion_304">>,
                  <<"revision_suscripcion_302", "revision_suscripcion_304">>>>]}

\* The target stage each return branch passes to Rework.objects.create.
TargetOf ==
    (DevolucionBrocker :> RegistrarPO) @@
    (DevolverComercial :> EnviarRevisionSuscripcion) @@
    (DevolucionSuscripcion :> EnviarRevisionSuscripcion) @@
    (DevolucionComercialVisado :> Visado) @@
    (DevolucionComercialEmision :> RevisionEmision) @@
    (DevolucionVisadoEmision :> Visado) @@
    (DevolucionEmisionCorregir :> FinalizarEnvio) @@
    (DevolucionComercialCorregir :> FinalizarEnvio)

\* The Activity rows the run of case cid stores, every delta being Delta.
RunActivities(cid, run, initial_timestamp) ==
    [k \in 1..Len(run.names) |->
        [case |-> cid, name |-> run.names[k],
         timestamp |-> initial_timestamp + k * Delta,
         case_index |-> cid, tpt |-> 0]]

\* The draws the run of case cid makes; start draws for a Renewal only.
RunDraws(cid, run, case_type) ==
    (IF case_type = Renewal
     THEN <<[case |-> cid, at |-> "start", to |-> "registro_de_compromiso"]>>
     ELSE <<>>)
    \o [k \in 1..Len(run.draws) |->
           [case |-> cid, at |-> run.draws[k][1], to |-> run.draws[k][2]]]

\* The Activity table and the draws after the runs of cases 1..k.
RECURSIVE RunsActivities(_, _, _)
RunsActivities(runs, initial_timestamp, k) ==
    IF k = 0 THEN <<>>
    ELSE RunsActivities(runs, initial_timestamp, k - 1)
             \o RunActivities(k, runs[k], initial_timestamp)

RECURSIVE RunsDraws(_, _, _)
RunsDraws(runs, types, k) ==
    IF k = 0 THEN <<>>
    ELSE RunsDraws(runs, types, k - 1) \o RunDraws(k, runs[k], types[k])

\* The Rework table after the runs that stored acts: one row for each return
\* Activity, created when that Activity was the newest one.
RunsReworks(acts) ==
    LET ids == SelectSeq([k \in 1..Len(acts) |-> k],
                         LAMBDA k : acts[k].name \in ReturnNames)
    IN  [q \in 1..Len(ids) |->
            NewRework(SubSeq(acts, 1, ids[q]), acts[ids[q]].case,
                      TargetOf[acts[ids[q]].name], CAUSES[1])]

\* handle at line 771: the loop has generated NumCases cases of type Issuance
\* or Renewal, each by one of the runs of VariantRuns.
InitVariants ==
    /\ n = NumCases
    /\ pc = "handle"
    /\ stack = <<>>
    /\ i = NumCases
    /\ cases_ids = [k \in 1..NumCases |-> k]
    /\ \E runs \in [1..NumCases -> VariantRuns],
          types \in [1..NumCases -> {Issuance, Renewal}],
          initial_timestamp \in InitialTimestamps, value \in Values(1) :
          /\ Activities = RunsActivities(runs, initial_timestamp, NumCases)
          /\ Cases = [cid \in 1..NumCases |->
                         [type |-> types[cid],
                          state |-> runs[cid].names[Len(runs[cid].names)],
                          approved |-> FALSE, avg_time |-> 0, value |-> value]]
          /\ case = [case_id |-> NumCases, type |-> types[NumCases],
                     last_timestamp |-> Activities[Len(Activities)].timestamp,
                     state |-> Activities[Len(Activities)].name,
                     value |-> value]
          /\ draws = RunsDraws(runs, types, NumCases)
    /\ Reworks = RunsReworks(Activities)
    /\ Bills = <<>>
    /\ Variants = <<>>
    /\ request = NoRequest
    /\ response = NoResponse

\* The analytics passes of handle (lines 772-776) on those logs.
SpecVariants ==
    InitVariants /\ [][add_time_to_cases \/ create_variants \/ add_TPT]_vars

\* Cases c1 and c2 stand in the cases of one Variant.
SameVariant(c1, c2) ==
    \E g \in 1..Len(Variants) :
        /\ \E k \in 1..Len(Variants[g].cases) : Variants[g].cases[k] = c1
        /\ \E k \in 1..Len(Variants[g].cases) : Variants[g].cases[k] = c2

\* C30: after create_variants, two cases stand in the same Variant exactly
\* when the names of their Activities, in insertion order, are the same
\* sequence, and the activities of a Variant are the sequence of names of
\* each of its cases.
C30_VariantPerSequence ==
    pc \in {"add_TPT", "done"} =>
        /\ \A c1, c2 \in DOMAIN Cases :
               SameVariant(c1, c2) <=> CaseNames(c1) = CaseNames(c2)
        /\ \A g \in 1..Len(Variants) :
               \A k \in 1..Len(Variants[g].cases) :
                   Variants[g].activities = CaseNames(Variants[g].cases[k])

\* The number of Activities of case cid named name.
Visits(cid, name) ==
    Cardinality({k \in CaseActivityIds(Activities, cid) :
                    Activities[k].name = name})

\* create_variants has put in two Variants two cases that visited the same
\* stages the same number of times, in different orders.
C30_Witness ==
    /\ pc = "add_TPT"
    /\ Len(Variants) = 2
    /\ \E c1, c2 \in DOMAIN Cases :
          /\ ~SameVariant(c1, c2)
          /\ \A k \in 1..Len(Activities) :
                 Visits(c1, Activities[k].name) = Visits(c2, Activities[k].name)
          /\ CaseNames(c1) # CaseNames(c2)

\* The time from the smallest to the largest Activity timestamp of case cid.
CaseSpan(cid) ==
    LET times == {Activities[k].timestamp : k \in CaseActivityIds(Activities, cid)}
    IN  Max(times) - Min(times)

\* The sum of CaseSpan over the cases listed in value.
RECURSIVE SumSpans(_)
SumSpans(value) ==
    IF value = <<>> THEN 0 ELSE CaseSpan(Head(value)) + SumSpans(Tail(value))

\* The sum of the numerators of the percentages of a sequence of Variants.
RECURSIVE SumPercentage(_)
SumPercentage(variants) ==
    IF variants = <<>> THEN 0
    ELSE Head(variants).percentage.num + SumPercentage(Tail(variants))

C32_AvgTimeIsSpan ==
    /\ [](pc \in {"create_variants", "add_TPT", "done"} =>
             \A cid \in DOMAIN Cases : Cases[cid].avg_time = CaseSpan(cid))
    /\ [][(pc = "handle" /\ pc' = "create_variants") =>
              /\ DOMAIN Cases' = DOMAIN Cases
              /\ \A cid \in DOMAIN Cases :
                     Cases'[cid] = [Cases[cid] EXCEPT !.avg_time = CaseSpan(cid)]
              /\ Activities' = Activities
              /\ UNCHANGED <<Reworks, Bills, Variants, request, response>>]_vars

\* add_time_to_cases has run over two cases of different durations, each
\* still in the terminal state the engine left it in.
C32_Witness ==
    /\ pc = "create_variants"
    /\ \E c1, c2 \in DOMAIN Cases :
          /\ Cases[c1].avg_time > 0
          /\ Cases[c1].avg_time < Cases[c2].avg_time
          /\ Cases[c2].avg_time = CaseSpan(c2)
          /\ Cases[c1].state \in TerminalStages
          /\ Cases[c2].state \in TerminalStages

\* The place of case cid in the order of generation: 1 for the first case.
CaseOrdinal(cid) == CHOOSE k \in 1..Len(cases_ids) : cases_ids[k] = cid

\* C33: the case_index of every Activity is the place of its case in the
\* order of generation (counted from 1 throughout, or from 0 throughout), so
\* the Activities of one case carry one case_index and those of different
\* cases different ones.
C33_CaseIndexIsOrdinal ==
    /\ \/ \A k \in 1..Len(Activities) :
              Activities[k].case_index = CaseOrdinal(Activities[k].case)
       \/ \A k \in 1..Len(Activities) :
              Activities[k].case_index = CaseOrdinal(Activities[k].case) - 1
    /\ \A j, k \in 1..Len(Activities) :
           (Activities[j].case = Activities[k].case)
               <=> (Activities[j].case_index = Activities[k].case_index)

\* The rows a step has appended to a table that only grows.
Appended(old, new) == SubSeq(new, Len(old) + 1, Len(new))

\* C34: the Activities, the Reworks and the Bills are stored case after case,
\* in the order in which the cases are generated; a Case row is created only
\* when no run is in progress, and a step of the run of a case stores rows of
\* that case only and changes no Case row of another case.
C34_CasesOneAfterAnother ==
    /\ [](/\ \A k \in 1..(Len(Activities) - 1) :
                CaseOrdinal(Activities[k].case)
                    <= CaseOrdinal(Activities[k + 1].case)
          /\ \A k \in 1..(Len(Bills) - 1) :
                CaseOrdinal(Bills[k].case) <= CaseOrdinal(Bills[k + 1].case)
          /\ \A q \in 1..(Len(Reworks) - 1) :
                Reworks[q].activity < Reworks[q + 1].activity)
    /\ [][/\ (DOMAIN Cases' # DOMAIN Cases) =>
                 /\ pc = "handle"
                 /\ stack = <<>>
                 /\ \A cid \in DOMAIN Cases : Cases'[cid] = Cases[cid]
                 /\ Activities' = Activities
          /\ (pc \notin HandlePlaces) =>
                 /\ DOMAIN Cases' = DOMAIN Cases
                 /\ \A cid \in DOMAIN Cases \ {case.case_id} :
                        Cases'[cid] = Cases[cid]
                 /\ SubSeq(Activities', 1, Len(Activities)) = Activities
                 /\ \A k \in 1..Len(Appended(Activities, Activities')) :
                        Appended(Activities, Activities')[k].case = case.case_id
                 /\ SubSeq(Bills', 1, Len(Bills)) = Bills
                 /\ \A k \in 1..Len(Appended(Bills, Bills')) :
                        Appended(Bills, Bills')[k].case = case.case_id
                 /\ SubSeq(Reworks', 1, Len(Reworks)) = Reworks
                 /\ \A q \in 1..Len(Appended(Reworks, Reworks')) :
                        Activities'[Appended(Reworks, Reworks')[q].activity].case
                            = case.case_id]_vars

\* The run of a second case is in progress after the run of a first case
\* that stored a Rework; the second case has stored Activities.
C34_Witness ==
    /\ Len(cases_ids) = 2
    /\ pc \notin HandlePlaces
    /\ Len(Reworks) >= 1
    /\ Activities[Reworks[1].activity].case = cases_ids[1]
    /\ Activities[Len(Activities)].case = cases_ids[2]
    /\ Cases[cases_ids[1]].state \in TerminalStages

\* C35: the step that records 'Generar Factura' and stores the Bills leaves
\* the working case at the timestamp and the state of that Activity and adds
\* no other Activity, whatever the number of Bills; the next step records
\* 'Contabilizar Factura' one delta after 'Generar Factura'.
C35_BillsLeaveCaseAlone ==
    [][/\ (pc = "iniciar_facturacion_472") =>
              /\ Len(Activities') = Len(Activities) + 1
              /\ SubSeq(Activities', 1, Len(Activities)) = Activities
              /\ Activities'[Len(Activities')].name = GenerarFactura
              /\ case'.last_timestamp = Activities'[Len(Activities')].timestamp
              /\ case'.state = GenerarFactura
              /\ Cases'[case.case_id].state = GenerarFactura
       /\ (pc = "iniciar_facturacion_478") =>
              /\ Activities[Len(Activities)].name = GenerarFactura
              /\ Activities'[Len(Activities')].name = ContabilizarFactura
              /\ \E d \in Deltas(Len(Activities)) :
                     Activities'[Len(Activities')].timestamp
                         = Activities[Len(Activities)].timestamp + d
              /\ Bills' = Bills]_vars

\* A billing entry that stored two Bills has recorded 'Contabilizar Factura'
\* one delta after 'Generar Factura'.
C35_Witness ==
    /\ Len(Bills) = 2
    /\ case.state = ContabilizarFactura
    /\ Activities[Len(Activities)].name = ContabilizarFactura
    /\ Activities[Len(Activities) - 1].name = GenerarFactura
    /\ Activities[Len(Activities)].timestamp
           = Activities[Len(Activities) - 1].timestamp + Delta
    /\ Bills[1].timestamp = Activities[Len(Activities) - 1].timestamp

\* The sum of tpt over a sequence of Activity rows.
RECURSIVE SumTPT(_)
SumTPT(acts) == IF acts = <<>> THEN 0 ELSE Head(acts).tpt + SumTPT(Tail(acts))

ActivityPageSize == 50
VariantPageSize == 50
InvoicePageSize == 50
GroupPageSize == 50
InventoryPageSize == 50
CasePageSize == 100000

\* A page_size a request asks for.
SmallPage == 1

\* The ids a request may name in 'var': Variant ids are AutoField values, the
\* positions of the rows in the table.
MaxVariantId == 3

\* The messages of the exceptions a handler meets when it queries the
\* database or pages the rows.
Messages == {"no such table", "invalid literal for int()"}

\* The Invoice, Inventory and OrderItem tables: create_data writes none of
\* them.
Invoices == <<>>
Inventories == <<>>
OrderItems == <<>>

\* str() of a case id, a sequence of characters.
Digit == <<"0", "1", "2", "3", "4", "5", "6", "7", "8", "9">>

RECURSIVE str_id(_)
str_id(k) ==
    IF k < 10 THEN <<Digit[k + 1]>>
    ELSE str_id(k \div 10) \o <<Digit[(k % 10) + 1]>>

\* repr() of the id of a Case, a string in quotes.
repr_id(k) == <<"'">> \o str_id(k) \o <<"'">>

\* ", ".join of the reprs of a list of case ids.
RECURSIVE JoinIds(_)
JoinIds(value) ==
    IF value = <<>> THEN <<>>
    ELSE IF Len(value) = 1 THEN repr_id(value[1])
    ELSE repr_id(value[1]) \o <<",", " ">> \o JoinIds(Tail(value))

\* str(value) of create_variants, line 629: what Variant.cases holds.
str_cases(value) == <<"[">> \o JoinIds(value) \o <<"]">>

\* s[1:-1].
Slice(s) == SubSeq(s, 2, Len(s) - 1)

\* s.split(','), the pieces as a set.
RECURSIVE Split(_)
Split(s) ==
    IF \A k \in 1..Len(s) : s[k] # ","
    THEN {s}
    ELSE LET p == Min({k \in 1..Len(s) : s[k] = ","})
         IN  {SubSeq(s, 1, p - 1)} \cup Split(SubSeq(s, p + 1, Len(s)))

\* s.strip().
RECURSIVE Strip(_)
Strip(s) ==
    IF s = <<>> THEN s
    ELSE IF s[1] = " " THEN Strip(Tail(s))
    ELSE IF s[Len(s)] = " " THEN Strip(SubSeq(s, 1, Len(s) - 1))
    ELSE s

\* s.replace("'", "").
Unquote(s) == SelectSeq(s, LAMBDA c : c # "'")

\* The set comprehension of line 108 over the stored text of one Variant.
ParseCases(cases) == {Unquote(Strip(piece)) : piece \in Split(Slice(cases))}

\* Variant.objects.filter(id__in=variant_ids), line 103: the ids of the rows.
VariantsIn(variants, variant_ids) ==
    {g \in 1..Len(variants) : g \in variant_ids}

\* ActivityList.get, lines 102-110: the Activity ids S after the 'var' filter.
VarFilter(acts, variants, variant_ids, S) ==
    IF variant_ids = {} THEN S
    ELSE LET found == VariantsIn(variants, variant_ids)
         IN  IF found = {} THEN S
             ELSE LET case_ids == UNION {ParseCases(str_cases(variants[g].cases)) :
                                            g \in found}
                  IN  {k \in S : str_id(acts[k].case) \in case_ids}

\* ActivityList.get, lines 81-114: the ids of the Activity rows the filters
\* keep.  The model's Case rows have no branch, ramo, brocker, client or
\* creator, which no handler reads; those five filters are left out.
FilterActivities(acts, rows, variants, params) ==
    LET kept == {k \in 1..Len(acts) :
                    /\ params.case_index # Absent
                          => acts[k].case_index = params.case_index
                    /\ params.case # {} => acts[k].case \in params.case
                    /\ params.name # {} => acts[k].name \in params.name
                    /\ params.type # "" => rows[acts[k].case].type = params.type
                    /\ params.state # ""
                          => rows[acts[k].case].state = params.state}
        chosen == VarFilter(acts, variants, params.var, kept)
    IN  {k \in chosen :
            /\ params.start_date # Absent => acts[k].timestamp >= params.start_date
            /\ params.end_date # Absent => acts[k].timestamp <= params.end_date}

\* order_by('timestamp'), line 116, over the Activity ids S: rows of equal
\* timestamp in the order of their ids.
RECURSIVE ByTimestamp(_, _)
ByTimestamp(acts, S) ==
    IF S = {} THEN <<>>
    ELSE LET first == Min({k \in S : \A j \in S :
                                        acts[k].timestamp <= acts[j].timestamp})
         IN  <<first>> \o ByTimestamp(acts, S \ {first})

\* order_by('-percentage'), line 201, over the Variant ids S: rows of equal
\* percentage in the order of their ids.
RECURSIVE ByPercentage(_, _)
ByPercentage(variants, S) ==
    IF S = {} THEN <<>>
    ELSE LET first == Min({g \in S : \A h \in S :
                              variants[g].percentage.num * variants[h].percentage.den
                                >= variants[h].percentage.num
                                     * variants[g].percentage.den})
         IN  <<first>> \o ByPercentage(variants, S \ {first})

\* The first page of a sequence of rows: the request's page_size, or the
\* view's default.
Page(rows, page_size, default) ==
    LET size == IF page_size = Absent THEN default ELSE page_size
    IN  SubSeq(rows, 1, IF Len(rows) < size THEN Len(rows) ELSE size)

\* Whether the date validation of lines 73-79 and 246-252 answers 400.
InvalidDate(params) ==
    params.start_date = Malformed \/ params.end_date = Malformed

\* The Response of line 79 and of line 252.
BadRequest ==
    [status |-> 400, results |-> <<>>,
     error |-> "Invalid date format. Use YYYY-MM-DD.", raised |-> NoFault]

\* A Response of status 200 with these rows.
Ok(rows) == [status |-> 200, results |-> rows, error |-> "", raised |-> NoFault]

\* The except clause of lines 124-125, 157-158, 271-272 and 371-373.
ServerError(e) == [status |-> 500, results |-> <<>>, error |-> e, raised |-> NoFault]

\* An exception that leaves get: the handler returns no Response.
Raised(e) == [status |-> 0, results |-> <<>>, error |-> "", raised |-> e]

\* A get whose body stands in try ... except Exception: the Response for an
\* exception e raised in the body, or the body's own Response.
TryExcept(e, body) == IF e # NoFault THEN ServerError(e) ELSE body

\* A get whose body stands in no try: the exception leaves the handler.
NoTry(e, body) == IF e # NoFault THEN Raised(e) ELSE body

\* The other parameters of the requests to the activity list.
ActivityQueries ==
    {NoParams,
     [NoParams EXCEPT !.case = {1}],
     [NoParams EXCEPT !.name = {Visado}],
     [NoParams EXCEPT !.case_index = 1],
     [NoParams EXCEPT !.type = Renewal],
     [NoParams EXCEPT !.state = DeclinarSuscripcion],
     [NoParams EXCEPT !.start_date = Malformed],
     [NoParams EXCEPT !.end_date = Malformed],
     [NoParams EXCEPT !.start_date = 3, !.end_date = 9],
     [NoParams EXCEPT !.page_size = SmallPage]}

\* The API answers on the tables handle has left.  A GET writes no table, so
\* the model follows one request on each of them.
Serving == pc = "done" /\ request = NoRequest

\* The faults a request may meet.
Faults == {NoFault} \cup Messages

\* ActivityList.get, lines 56-125.  The exception, when there is one, is
\* raised after the date validation, which touches no table.
ActivityList_get ==
    /\ Serving
    /\ \E query \in ActivityQueries, variant_ids \in SUBSET (1..MaxVariantId),
          e \in Faults :
          LET params == [query EXCEPT !.var = variant_ids]
          IN  /\ request' = [view |-> "ActivityList", params |-> params,
                             fault |-> e]
              /\ response' =
                    IF InvalidDate(params) THEN BadRequest
                    ELSE TryExcept(e,
                             LET S == FilterActivities(Activities, Cases,
                                                       Variants, params)
                                 ids == Page(ByTimestamp(Activities, S),
                                             params.page_size, ActivityPageSize)
                             IN  Ok([r \in 1..Len(ids) |-> Activities[ids[r]]]))
    /\ UNCHANGED <<pc, stack, n, i, cases_ids, case, Cases, Activities, Reworks,
                   Bills, Variants, draws>>

\* DistinctActivityData.get, lines 143-158.
DistinctActivityData_get ==
    /\ Serving
    /\ \E e \in Faults :
          /\ request' = [view |-> "DistinctActivityData", params |-> NoParams,
                         fault |-> e]
          /\ response' =
                TryExcept(e,
                    Ok(<<[name |-> "case",
                          distincts |-> {Activities[k].case :
                                            k \in 1..Len(Activities)}],
                         [name |-> "timestamp", distincts |-> {}],
                         [name |-> "name",
                          distincts |-> {Activities[k].name :
                                            k \in 1..Len(Activities)}]>>))
    /\ UNCHANGED <<pc, stack, n, i, cases_ids, case, Cases, Activities, Reworks,
                   Bills, Variants, draws>>

\* VariantList.get, lines 194-207: no try.  activities__icontains is modelled
\* for a parameter that is the whole name of an Activity.
VariantList_get ==
    /\ Serving
    /\ \E activities_param \in {{}, {Visado}, {Visado, DevolverComercial}},
          page_size \in {Absent, SmallPage}, e \in Faults :
          LET params == [NoParams EXCEPT !.activities = activities_param,
                                         !.page_size = page_size]
              S == {g \in 1..Len(Variants) :
                       \A param \in activities_param :
                           \E k \in 1..Len(Variants[g].activities) :
                               Variants[g].activities[k] = param}
              ids == Page(ByPercentage(Variants, S), page_size, VariantPageSize)
          IN  /\ request' = [view |-> "VariantList", params |-> params,
                             fault |-> e]
              /\ response' = NoTry(e, Ok([r \in 1..Len(ids) |-> Variants[ids[r]]]))
    /\ UNCHANGED <<pc, stack, n, i, cases_ids, case, Cases, Activities, Reworks,
                   Bills, Variants, draws>>

\* KPIList.get, lines 241-272.
KPIList_get ==
    /\ Serving
    /\ \E start_date \in {Absent, Malformed, 3}, end_date \in {Absent, Malformed, 9},
          e \in Faults :
          LET params == [NoParams EXCEPT !.start_date = start_date,
                                         !.end_date = end_date]
              S == {k \in 1..Len(Activities) :
                       /\ start_date # Absent => Activities[k].timestamp >= start_date
                       /\ end_date # Absent => Activities[k].timestamp <= end_date}
          IN  /\ request' = [view |-> "KPIList", params |-> params, fault |-> e]
              /\ response' =
                    IF InvalidDate(params) THEN BadRequest
                    ELSE TryExcept(e,
                             Ok(<<[case_quantity |->
                                       Cardinality({Activities[k].case : k \in S}),
                                   variant_quantity |-> Len(Variants)]>>))
    /\ UNCHANGED <<pc, stack, n, i, cases_ids, case, Cases, Activities, Reworks,
                   Bills, Variants, draws>>

\* InvoiceList.get, lines 296-306: no try.
InvoiceList_get ==
    /\ Serving
    /\ \E case_ids \in {{}, {1}}, page_size \in {Absent, SmallPage}, e \in Faults :
          LET params == [NoParams EXCEPT !.case = case_ids,
                                         !.page_size = page_size]
              invoices == IF case_ids = {} THEN Invoices
                          ELSE SelectSeq(Invoices, LAMBDA v : v.case \in case_ids)
          IN  /\ request' = [view |-> "InvoiceList", params |-> params,
                             fault |-> e]
              /\ response' = NoTry(e, Ok(Page(invoices, page_size, InvoicePageSize)))
    /\ UNCHANGED <<pc, stack, n, i, cases_ids, case, Cases, Activities, Reworks,
                   Bills, Variants, draws>>

\* GroupList.get, lines 340-373: one entry per group_id of the Invoice table.
GroupList_get ==
    /\ Serving
    /\ \E page_size \in {Absent, SmallPage}, e \in Faults :
          LET params == [NoParams EXCEPT !.page_size = page_size]
              group_list == {Invoices[k].group_id : k \in 1..Len(Invoices)}
              group_data == [g \in 1..Cardinality(group_list) |->
                                [group_id |-> g]]
          IN  /\ request' = [view |-> "GroupList", params |-> params, fault |-> e]
              /\ response' =
                    TryExcept(e, Ok(Page(group_data, page_size, GroupPageSize)))
    /\ UNCHANGED <<pc, stack, n, i, cases_ids, case, Cases, Activities, Reworks,
                   Bills, Variants, draws>>

\* InventoryList.get, lines 396-403: no try.
InventoryList_get ==
    /\ Serving
    /\ \E page_size \in {Absent, SmallPage}, e \in Faults :
          /\ request' = [view |-> "InventoryList",
                         params |-> [NoParams EXCEPT !.page_size = page_size],
                         fault |-> e]
          /\ response' = NoTry(e, Ok(Page(Inventories, page_size,
                                          InventoryPageSize)))
    /\ UNCHANGED <<pc, stack, n, i, cases_ids, case, Cases, Activities, Reworks,
                   Bills, Variants, draws>>

\* Case.objects.all(), line 427: the Case rows in the order of their ids.
RECURSIVE AllCases(_, _)
AllCases(rows, S) ==
    IF S = {} THEN <<>>
    ELSE <<[id |-> Min(S), type |-> rows[Min(S)].type,
            state |-> rows[Min(S)].state, avg_time |-> rows[Min(S)].avg_time]>>
         \o AllCases(rows, S \ {Min(S)})

\* CaseList.get, lines 426-433: no try.
CaseList_get ==
    /\ Serving
    /\ \E page_size \in {Absent, SmallPage}, e \in Faults :
          /\ request' = [view |-> "CaseList",
                         params |-> [NoParams EXCEPT !.page_size = page_size],
                         fault |-> e]
          /\ response' = NoTry(e, Ok(Page(AllCases(Cases, DOMAIN Cases),
                                          page_size, CasePageSize)))
    /\ UNCHANGED <<pc, stack, n, i, cases_ids, case, Cases, Activities, Reworks,
                   Bills, Variants, draws>>

\* OrderItemList.get, lines 458-463: no try, and no page_size parameter.
OrderItemList_get ==
    /\ Serving
    /\ \E e \in Faults :
          /\ request' = [view |-> "OrderItemList", params |-> NoParams,
                         fault |-> e]
          /\ response' = NoTry(e, Ok(OrderItems))
    /\ UNCHANGED <<pc, stack, n, i, cases_ids, case, Cases, Activities, Reworks,
                   Bills, Variants, draws>>

\* A GET on the read surface.
Get ==
    \/ ActivityList_get
    \/ DistinctActivityData_get
    \/ VariantList_get
    \/ KPIList_get
    \/ InvoiceList_get
    \/ GroupList_get
    \/ InventoryList_get
    \/ CaseList_get
    \/ OrderItemList_get

\* The analytics passes of handle on the logs of InitVariants, then GET
\* requests on the tables they leave.
SpecRead ==
    InitVariants
    /\ [][add_time_to_cases \/ create_variants \/ add_TPT \/ Get]_vars

(* C37: when the activity list is asked with one or more variant ids, every
   Activity it returns belongs to a case that one of the Variants with those
   ids stores in its case set; a request whose ids match no Variant has no
   such case, and is to return no Activity. *)
C37_VarFilterSelectsVariantCases ==
    (/\ request.view = "ActivityList"
     /\ request.params.var # {}
     /\ response.status = 200)
    => \A r \in 1..Len(response.results) :
           \E g \in VariantsIn(Variants, request.params.var) :
               \E k \in 1..Len(Variants[g].cases) :
                   Variants[g].cases[k] = response.results[r].case

(* C38: on every view of the read surface, an exception raised while a GET
   is handled is answered by a Response of status 500 that carries the
   exception's message, and no exception leaves the handler. *)
C38_FaultsAnsweredWith500 ==
    (/\ request.view # ""
     /\ request.fault # NoFault
     /\ ~InvalidDate(request.params))
    => /\ response.status = 500
       /\ response.error = request.fault
       /\ response.raised = NoFault

====
